---------------------------- MODULE Spec2Model ----------------------------
(***************************************************************************)
(* A model of the mysql-express-app server (src/src/app.js): the startup   *)
(* retry loop of initializeDatabase, the ten reporting handlers plus       *)
(* /health and /, the connection pool they share, and the SIGTERM handler. *)
(*                                                                         *)
(* Representation.                                                         *)
(*   - A JavaScript value is a tagged tuple: <<"undefined">>, <<"nan">>,   *)
(*     <<"num", m, s>>, <<"str", chars>>, <<"arr", items>>.  A string is   *)
(*     the sequence of its characters, so that parseInt, parseFloat and    *)
(*     split are computed character by character as the runtime does.  A   *)
(*     character is a string of length one; a code unit that has no        *)
(*     spelling in a TLA+ string is named by its code point, "U+00A0".     *)
(*   - A JavaScript number is <<"num", m, s>>, the decimal m / 10^s with   *)
(*     the least s >= 0 (3.5 is <<"num", 35, 1>>); the infinities are      *)
(*     <<"inf", sign>>.  A column computed by the store with ROUND(.., 2)  *)
(*     is an integer count of hundredths.                                  *)
(*   - A query text is the sequence of its tokens: <<"lit", s>> for a      *)
(*     fixed fragment of the template and <<"?">> for a placeholder.       *)
(*   - An SQL value is <<>> for NULL and <<v>> otherwise.                  *)
(***************************************************************************)
EXTENDS Integers, Sequences, FiniteSets, TLC

\* ------------------------------------------------------------------ bounds
MaxReq == 2
MaxFailures == 2
MaxEnrollments == 2
RosterSize == 21
PoolReqs == 12

\* ------------------------------------------------------- JavaScript values
Undefined == <<"undefined">>
NaN == <<"nan">>
Num(n) == <<"num", n, 0>>
Inf(sign) == <<"inf", sign>>
Str(cs) == <<"str", cs>>
Arr(items) == <<"arr", items>>

RECURSIVE Pow10(_)
Pow10(k) == IF k <= 0 THEN 1 ELSE 10 * Pow10(k - 1)

\* The number m / 10^s in its one representation: <<"num", m', s'>> with
\* s' >= 0 as small as possible.
RECURSIVE Dec(_, _)
Dec(m, s) ==
  IF s < 0 THEN <<"num", m * Pow10(0 - s), 0>>
  ELSE IF s > 0 /\ m % 10 = 0 THEN Dec(m \div 10, s - 1)
  ELSE <<"num", m, s>>

\* x / 10^u >= v, for a number v.
NumberAtLeast(x, u, v) == x * Pow10(v[3]) >= v[2] * Pow10(u)

IsArr(v) == v[1] = "arr"

\* JavaScript truthiness: undefined, NaN, 0 and "" are falsy; arrays and the
\* infinities are truthy.
Truthy(v) ==
  CASE v[1] = "undefined" -> FALSE
    [] v[1] = "nan" -> FALSE
    [] v[1] = "num" -> v[2] # 0
    [] v[1] = "str" -> v[2] # <<>>
    [] OTHER -> TRUE

\* a || b
Or(a, b) == IF Truthy(a) THEN a ELSE b

Digits == {"0", "1", "2", "3", "4", "5", "6", "7", "8", "9"}

DigitVal(c) ==
  CASE c = "0" -> 0 [] c = "1" -> 1 [] c = "2" -> 2 [] c = "3" -> 3
    [] c = "4" -> 4 [] c = "5" -> 5 [] c = "6" -> 6 [] c = "7" -> 7
    [] c = "8" -> 8 [] c = "9" -> 9

HexDigits ==
  Digits \cup {"a", "b", "c", "d", "e", "f", "A", "B", "C", "D", "E", "F"}

HexVal(c) ==
  CASE c \in Digits -> DigitVal(c)
    [] c \in {"a", "A"} -> 10 [] c \in {"b", "B"} -> 11 [] c \in {"c", "C"} -> 12
    [] c \in {"d", "D"} -> 13 [] c \in {"e", "E"} -> 14 [] c \in {"f", "F"} -> 15

\* The length of the longest prefix of cs[from..] made of characters of S.
RECURSIVE RunOf(_, _, _)
RunOf(S, cs, from) ==
  IF from <= Len(cs) /\ cs[from] \in S
    THEN 1 + RunOf(S, cs, from + 1)
    ELSE 0

DigitRun(cs, from) == RunOf(Digits, cs, from)

\* The value of the digit string cs[from..from+n-1].
RECURSIVE DigitsValue(_, _, _)
DigitsValue(cs, from, n) ==
  IF n = 0 THEN 0
  ELSE DigitsValue(cs, from, n - 1) * 10 + DigitVal(cs[from + n - 1])

RECURSIVE HexValue(_, _, _)
HexValue(cs, from, n) ==
  IF n = 0 THEN 0
  ELSE HexValue(cs, from, n - 1) * 16 + HexVal(cs[from + n - 1])

\* The code units parseInt and parseFloat skip before a number: the white
\* space and line terminators of the language (U+0009 to U+000D, the space,
\* U+00A0, U+1680, U+2000 to U+200A, U+2028, U+2029, U+202F, U+205F, U+3000
\* and U+FEFF).
WhiteSpace ==
  {"\t", "\n", "U+000B", "\f", "\r", " ", "U+00A0", "U+1680",
   "U+2000", "U+2001", "U+2002", "U+2003", "U+2004", "U+2005", "U+2006",
   "U+2007", "U+2008", "U+2009", "U+200A",
   "U+2028", "U+2029", "U+202F", "U+205F", "U+3000", "U+FEFF"}

SkipBlanks(cs) == 1 + RunOf(WhiteSpace, cs, 1)

\* The characters the store skips before a number when it converts a string:
\* the blank and the tab, nothing else.
SqlBlanks == {" ", "\t"}

HasSign(cs, i) == i <= Len(cs) /\ cs[i] \in {"+", "-"}
SignAt(cs, i) == IF i <= Len(cs) /\ cs[i] = "-" THEN 0 - 1 ELSE 1

StartsWith(cs, i, word) ==
  /\ i + Len(word) - 1 <= Len(cs)
  /\ SubSeq(cs, i, i + Len(word) - 1) = word

\* String(v): how the runtime turns a request value into text before parsing
\* (an array joins its items with commas).
RECURSIVE JoinComma(_)
JoinComma(items) ==
  IF items = <<>> THEN <<>>
  ELSE IF Len(items) = 1 THEN items[1][2]
  ELSE items[1][2] \o <<",">> \o JoinComma(Tail(items))

ToChars(v) ==
  CASE v[1] = "str" -> v[2]
    [] v[1] = "arr" -> JoinComma(v[2])
    [] OTHER -> <<"u", "n", "d", "e", "f", "i", "n", "e", "d">>

\* parseInt(v): after leading white space and an optional sign, the run of
\* hexadecimal digits behind 0x or 0X, else the run of decimal digits; NaN
\* when the run is empty.  (The value stays within the model's integers.)
parseInt(v) ==
  LET cs == ToChars(v)
      i == SkipBlanks(cs)
      j == IF HasSign(cs, i) THEN i + 1 ELSE i
      hex == j + 1 <= Len(cs) /\ cs[j] = "0" /\ cs[j + 1] \in {"x", "X"}
      n == IF hex THEN RunOf(HexDigits, cs, j + 2) ELSE DigitRun(cs, j)
  IN IF n = 0 THEN NaN
     ELSE Num(SignAt(cs, i) *
                (IF hex THEN HexValue(cs, j + 2, n) ELSE DigitsValue(cs, j, n)))

\* The decimal literal that starts at cs[i]: an optional sign, digits with an
\* optional "." and fraction digits, and an optional exponent (e or E, an
\* optional sign, digits); NaN when there is no digit.  The longest such
\* prefix counts and what follows is ignored.
DecimalAt(cs, i) ==
  LET j == IF HasSign(cs, i) THEN i + 1 ELSE i
      n == DigitRun(cs, j)
      dot == j + n <= Len(cs) /\ cs[j + n] = "."
      f == IF dot THEN DigitRun(cs, j + n + 1) ELSE 0
      k == j + n + (IF dot THEN 1 + f ELSE 0)
      hasE == k <= Len(cs) /\ cs[k] \in {"e", "E"}
      es == IF HasSign(cs, k + 1) THEN k + 2 ELSE k + 1
      en == IF hasE THEN DigitRun(cs, es) ELSE 0
      ex == IF en = 0 THEN 0 ELSE SignAt(cs, k + 1) * DigitsValue(cs, es, en)
      mant == DigitsValue(cs, j, n) * Pow10(f) + DigitsValue(cs, j + n + 1, f)
  IN IF n = 0 /\ f = 0 THEN NaN
     ELSE Dec(SignAt(cs, i) * mant, f - ex)

\* parseFloat(v): after leading white space, Infinity with an optional sign,
\* else the decimal literal; NaN when there is neither.  (Mantissa and
\* exponent stay within the model's integers.)
parseFloat(v) ==
  LET cs == ToChars(v)
      i == SkipBlanks(cs)
      j == IF HasSign(cs, i) THEN i + 1 ELSE i
  IN IF StartsWith(cs, j, <<"I", "n", "f", "i", "n", "i", "t", "y">>)
       THEN Inf(SignAt(cs, i))
       ELSE DecimalAt(cs, i)


\* s.split(','): the pieces between commas ("" splits to one empty piece).
RECURSIVE SplitFrom(_, _, _)
SplitFrom(cs, i, cur) ==
  IF i > Len(cs) THEN <<Str(cur)>>
  ELSE IF cs[i] = "," THEN <<Str(cur)>> \o SplitFrom(cs, i + 1, <<>>)
  ELSE SplitFrom(cs, i + 1, Append(cur, cs[i]))

split(v) == Arr(SplitFrom(v[2], 1, <<>>))

\* ---------------------------------------------------------- request inputs
\* req.params / req.query of one request: a record of JavaScript values; a
\* key the request does not carry reads as undefined.
Chars10 == <<"1", "0">>
CharsMeta ==
  <<"1", "0", ";", " ", "D", "R", "O", "P", " ", "T", "A", "B", "L", "E", " ",
    "s", "t", "u", "d", "e", "n", "t", "s">>

GradeValues ==
  {Undefined, Str(<<>>), Str(Chars10), Str(CharsMeta),
   Arr(<<Str(Chars10), Str(<<"1", "1">>)>>)}
GpaValues ==
  {Undefined, Str(<<"0">>), Str(<<"2">>), Str(<<"3", ".", "5">>), Str(<<"x">>),
   Str(<<"I", "n", "f", "i", "n", "i", "t", "y">>)}
CountValues == {Undefined, Str(<<"0">>), Str(<<"1">>), Str(<<"2">>), Str(<<"x">>)}
ThresholdValues ==
  {Str(<<"0">>), Str(<<"2">>), Str(<<"3">>), Str(<<"-", "1">>), Str(<<"\f", "2">>),
   Str(<<"x">>), Str(CharsMeta)}
CourseIdsValues ==
  {Undefined, Str(<<>>), Str(<<"1">>), Str(<<"1", ",", "2">>), Str(CharsMeta),
   Arr(<<Str(<<"1">>), Str(<<"2">>)>>)}

NoParams == <<>>

Input(op, params, query) == [op |-> op, params |-> params, query |-> query]

AllInputs ==
  {Input("studentsByGrade", [grade |-> g], NoParams) : g \in {Str(Chars10), Str(CharsMeta)}}
  \cup {Input("studentEnrollments", [studentId |-> i], NoParams) :
          i \in {Str(<<"1">>), Str(CharsMeta)}}
  \cup {Input("allWithEnrollments", NoParams, NoParams)}
  \cup {Input("studentsPerGrade", NoParams, NoParams)}
  \cup {Input("popularCourses", [minEnrollments |-> m], NoParams) : m \in ThresholdValues}
  \cup {Input("studentPerformance", NoParams, [minGPA |-> m, grade |-> g]) :
          m \in GpaValues, g \in GradeValues}
  \cup {Input("studentsInCourses", NoParams, [courseIds |-> c]) : c \in CourseIdsValues}
  \cup {Input("courseDetails", [courseId |-> c], NoParams) :
          c \in {Str(<<"1">>), Str(<<"2">>), Str(<<"9">>), Str(<<"\n", "1">>),
                 Str(CharsMeta)}}
  \cup {Input("topPerformers", NoParams, [minCourses |-> c, minGPA |-> m]) :
          c \in CountValues, m \in GpaValues}
  \cup {Input("departments", NoParams, NoParams)}
  \cup {Input("health", NoParams, NoParams)}
  \cup {Input("root", NoParams, NoParams)}

\* The requests of the runs with several requests in flight: the early 400,
\* a course that exists, one that does not (404), /health and /.
CoreInputs ==
  {i \in AllInputs :
     \/ i.op \in {"health", "root"}
     \/ i.op = "studentsInCourses" /\ i.query.courseIds = Undefined
     \/ i.op = "courseDetails" /\ i.params.courseId \in {Str(<<"1">>), Str(<<"9">>)}}

HealthInput == Input("health", NoParams, NoParams)

Operations ==
  {"studentsByGrade", "studentEnrollments", "allWithEnrollments", "studentsPerGrade",
   "popularCourses", "studentPerformance", "studentsInCourses", "courseDetails",
   "topPerformers", "departments"}

\* ------------------------------------------------------------ query texts
\* A text is a sequence of fixed fragments and placeholders; its first
\* fragment is the statement's verb.
Lit(s) == <<"lit", s>>
Placeholder == <<"?">>

NumPlaceholders(text) == Cardinality({k \in 1..Len(text) : text[k] = Placeholder})

\* A students-by-grade handler that sends a DELETE.
StudentsByGradeDelete ==
  <<Lit("DELETE"), Lit("FROM students WHERE grade ="), Placeholder>>

StudentsByGradeQuery ==
  <<Lit("SELECT"), Lit("student_id, first_name, last_name, email, grade, enrollment_date FROM students WHERE grade ="),
    Placeholder,
    Lit("ORDER BY last_name, first_name")>>

StudentEnrollmentsQuery ==
  <<Lit("SELECT"), Lit("s.student_id, s.first_name, s.last_name, c.course_id, c.course_name, c.credits, e.enrollment_date, e.grade FROM students s INNER JOIN enrollments e ON s.student_id = e.student_id INNER JOIN courses c ON e.course_id = c.course_id WHERE s.student_id ="),
    Placeholder,
    Lit("ORDER BY e.enrollment_date DESC")>>

AllWithEnrollmentsQuery ==
  <<Lit("SELECT"), Lit("s.student_id, s.first_name, s.last_name, s.grade, COUNT(e.enrollment_id) as total_enrollments, GROUP_CONCAT(c.course_name SEPARATOR ', ') as courses FROM students s LEFT JOIN enrollments e ON s.student_id = e.student_id LEFT JOIN courses c ON e.course_id = c.course_id GROUP BY s.student_id, s.first_name, s.last_name, s.grade ORDER BY s.last_name")>>

StudentsPerGradeQuery ==
  <<Lit("SELECT"), Lit("grade, COUNT(*) as student_count, COUNT(DISTINCT email) as unique_emails FROM students GROUP BY grade ORDER BY grade")>>

PopularCoursesQuery ==
  <<Lit("SELECT"), Lit("c.course_id, c.course_name, c.credits, COUNT(e.enrollment_id) as enrollment_count, AVG(CASE A 4.0 B 3.0 C 2.0 D 1.0 ELSE 0.0 END) as average_gpa FROM courses c INNER JOIN enrollments e ON c.course_id = e.course_id GROUP BY c.course_id, c.course_name, c.credits HAVING COUNT(e.enrollment_id) >="),
    Placeholder,
    Lit("ORDER BY enrollment_count DESC, average_gpa DESC")>>

\* A handler that splices the value itself into the text instead of binding it.
StudentPerformanceQueryInterpolated(grade) ==
  <<Lit("SELECT"), Lit("... FROM students s INNER JOIN enrollments e ON s.student_id = e.student_id INNER JOIN courses c ON e.course_id = c.course_id WHERE 1=1")>>
  \o (IF Truthy(grade) THEN <<Lit("AND s.grade ="), grade>> ELSE <<>>)
  \o <<Lit("GROUP BY ... HAVING AVG(...) >="), Placeholder, Lit("ORDER BY gpa DESC, total_credits DESC")>>

\* The template literal of the student performance handler: the one spliced
\* fragment is ${grade ? 'AND s.grade = ?' : ''}.
StudentPerformanceQuery(grade) ==
  <<Lit("SELECT"), Lit("s.student_id, s.first_name, s.last_name, s.grade as student_grade, COUNT(e.enrollment_id) as courses_taken, SUM(c.credits) as total_credits, AVG(CASE A 4.0 B 3.0 C 2.0 D 1.0 F 0.0 END) as gpa, GROUP_CONCAT(...) as course_history FROM students s INNER JOIN enrollments e ON s.student_id = e.student_id INNER JOIN courses c ON e.course_id = c.course_id WHERE 1=1")>>
  \o (IF Truthy(grade) THEN <<Lit("AND s.grade ="), Placeholder>> ELSE <<>>)
  \o <<Lit("GROUP BY s.student_id, s.first_name, s.last_name, s.grade HAVING AVG(CASE A 4.0 B 3.0 C 2.0 D 1.0 F 0.0 END) >="),
       Placeholder,
       Lit("ORDER BY gpa DESC, total_credits DESC")>>

StudentsInCoursesQuery ==
  <<Lit("SELECT"), Lit("DISTINCT s.student_id, s.first_name, s.last_name, s.email, s.grade, (SELECT COUNT(*) FROM enrollments e2 WHERE e2.student_id = s.student_id AND e2.course_id IN ("),
    Placeholder,
    Lit(")) as matching_course_count FROM students s WHERE s.student_id IN (SELECT DISTINCT student_id FROM enrollments WHERE course_id IN ("),
    Placeholder,
    Lit(")) ORDER BY matching_course_count DESC, s.last_name")>>

CourseDetailsQuery ==
  <<Lit("SELECT"), Lit("c.course_id, c.course_name, c.credits, c.department, COUNT(DISTINCT e.student_id) as total_students, COUNT(DISTINCT s.grade) as grade_levels_represented, SUM(CASE A) as count_A, ... count_F, ROUND(SUM(CASE A) * 100.0 / COUNT(*), 2) as percent_A, ... percent_B, ROUND(AVG(CASE A 4.0 B 3.0 C 2.0 D 1.0 F 0.0 END), 2) as average_gpa, MAX(e.enrollment_date) as latest_enrollment, (SELECT CONCAT(s2.first_name, ' ', s2.last_name) FROM students s2 INNER JOIN enrollments e2 ON s2.student_id = e2.student_id WHERE e2.course_id = c.course_id AND e2.grade = 'A' LIMIT 1) as top_student_example FROM courses c LEFT JOIN enrollments e ON c.course_id = e.course_id LEFT JOIN students s ON e.student_id = s.student_id WHERE c.course_id ="),
    Placeholder,
    Lit("GROUP BY c.course_id, c.course_name, c.credits, c.department")>>

TopPerformersQuery ==
  <<Lit("SELECT"), Lit("s.student_id, s.first_name, s.last_name, s.email, s.grade as student_grade, COUNT(DISTINCT e.course_id) as courses_completed, SUM(c.credits) as total_credits_earned, ROUND(SUM(CASE grade points * c.credits END) / SUM(c.credits), 2) as weighted_gpa, SUM(CASE A) as a_count, CASE AVG(points) >= 3.8 'Outstanding' >= 3.5 'Excellent' >= 3.0 'Good' ELSE 'Satisfactory' END as performance_rating FROM students s INNER JOIN enrollments e ON s.student_id = e.student_id INNER JOIN courses c ON e.course_id = c.course_id GROUP BY s.student_id, s.first_name, s.last_name, s.email, s.grade HAVING COUNT(DISTINCT e.course_id) >="),
    Placeholder,
    Lit("AND ROUND(SUM(CASE grade points * c.credits END) / SUM(c.credits), 2) >="),
    Placeholder,
    Lit("ORDER BY weighted_gpa DESC, courses_completed DESC LIMIT 20")>>

DepartmentsQuery ==
  <<Lit("SELECT"), Lit("c.department, COUNT(DISTINCT c.course_id) as total_courses, COUNT(DISTINCT e.student_id) as total_students, SUM(c.credits) as total_credits_offered, AVG(c.credits) as avg_credits_per_course, COUNT(e.enrollment_id) as total_enrollments, ROUND(COUNT(e.enrollment_id) * 1.0 / COUNT(DISTINCT c.course_id), 2) as avg_enrollments_per_course, ROUND(AVG(CASE A 4.0 B 3.0 C 2.0 D 1.0 F 0.0 END), 2) as department_avg_gpa, CONCAT('A:', ..., 'B:', ..., 'C:', ...) as grade_distribution, ROUND(SUM(CASE IN ('A','B','C')) * 100.0 / COUNT(e.enrollment_id), 2) as success_rate_percent FROM courses c LEFT JOIN enrollments e ON c.course_id = e.course_id GROUP BY c.department HAVING COUNT(e.enrollment_id) > 0 ORDER BY total_enrollments DESC, department_avg_gpa DESC")>>

SelectOne == <<Lit("SELECT"), Lit("1")>>

\* ---------------------------------------------------------------- the store
\* The three tables the reports read.  Students and courses are two fixed rows
\* each; the enrollments table varies over the sets of at most MaxEnrollments
\* rows, one per (student, course) pair at most (the table's unique key).
Null == <<>>
Some(v) == <<v>>

Students ==
  {[student_id |-> 1, first_name |-> "Ann", last_name |-> "Lee",
    email |-> "ann@school", grade |-> 10],
   [student_id |-> 2, first_name |-> "Bob", last_name |-> "Ray",
    email |-> "bob@school", grade |-> 11]}

Courses ==
  {[course_id |-> 1, course_name |-> "Algebra", credits |-> 4, department |-> "Math"],
   [course_id |-> 2, course_name |-> "Biology", credits |-> 3, department |-> "Science"]}

LetterGrades == {Some("A"), Some("B"), Some("F"), Null}

EnrollmentRows ==
  {[enrollment_id |-> 2 * (s - 1) + c, student_id |-> s, course_id |-> c,
    grade |-> g, enrollment_date |-> IF s = 1 THEN 1 ELSE 1 + c] :
     s \in {1, 2}, c \in {1, 2}, g \in LetterGrades}

EnrollmentTables ==
  {t \in SUBSET EnrollmentRows :
     /\ Cardinality(t) <= MaxEnrollments
     /\ \A e1, e2 \in t : e1.enrollment_id = e2.enrollment_id => e1 = e2}

Database(t) == [students |-> Students, courses |-> Courses, enrollments |-> t]

\* Ann has an A and an unfinished course; Bob has nothing; Biology's only
\* enrollment is ungraded.
SampleTable ==
  {e \in EnrollmentRows :
     \/ e.student_id = 1 /\ e.course_id = 1 /\ e.grade = Some("A")
     \/ e.student_id = 1 /\ e.course_id = 2 /\ e.grade = Null}


\* A larger school, for the report that is cut off at 20 rows: a third course
\* of one credit, and RosterSize further students (ids 3, 4, ...) with fixed
\* grades.  The first 17 take all three courses, with an A in the first and
\* grades in the others chosen so that no two of them have the same weighted
\* GPA (4.00 down to 2.00); the others take the first two courses.
RosterCourses ==
  Courses \cup
    {[course_id |-> 3, course_name |-> "Chorus", credits |-> 1, department |-> "Arts"]}

RosterStudents ==
  {[student_id |-> 2 + k, first_name |-> "Student", last_name |-> ToString(k),
    email |-> ToString(k), grade |-> 9 + (k % 4)] : k \in 1..RosterSize}

LetterOf(points) ==
  CASE points = 4 -> Some("A") [] points = 3 -> Some("B") [] points = 2 -> Some("C")
    [] points = 1 -> Some("D") [] OTHER -> Some("F")

\* The grade points of roster student k in course c (-1: not enrolled).
RosterPoints(k, c) ==
  IF k <= 17
    THEN LET rest == 17 - k
             b == IF rest \div 3 > 4 THEN 4 ELSE rest \div 3
         IN CASE c = 1 -> 4 [] c = 2 -> b [] OTHER -> rest - 3 * b
    ELSE LET j == k - 18
         IN CASE c = 1 -> 4 - (j \div 2) [] c = 2 -> 4 - (j % 2) [] OTHER -> -1

RosterEnrollments ==
  {[enrollment_id |-> 10 * (2 + p[1]) + p[2], student_id |-> 2 + p[1],
    course_id |-> p[2], grade |-> LetterOf(RosterPoints(p[1], p[2])),
    enrollment_date |-> 10 * (2 + p[1]) + p[2]] :
     p \in {q \in (1..RosterSize) \X (1..3) : RosterPoints(q[1], q[2]) >= 0}}

RosterDatabase(t) ==
  [students |-> Students \cup RosterStudents, courses |-> RosterCourses,
   enrollments |-> t \cup RosterEnrollments]

Max(S) == CHOOSE x \in S : \A y \in S : y <= x

\* ROUND(num / den, 2) in hundredths, for num already in units: half away
\* from zero, on non-negative operands.
Round2(num, den) == (2 * 100 * num + den) \div (2 * den)

\* The store's number for a bound string compared with an integer column:
\* the decimal literal the string starts with after leading blanks and tabs,
\* 0 when there is none.
SqlNumber(v) ==
  LET cs == ToChars(v)
      n == DecimalAt(cs, 1 + RunOf(SqlBlanks, cs, 1))
  IN IF n = NaN THEN Num(0) ELSE n

\* A CASE without the F branch: F yields NULL like an ungraded enrollment.
GradePointsWithoutF(g) ==
  CASE g = Some("A") -> Some(4)
    [] g = Some("B") -> Some(3)
    [] g = Some("C") -> Some(2)
    [] g = Some("D") -> Some(1)
    [] OTHER -> Null

\* CASE WHEN e.grade = 'A' THEN 4.0 ... WHEN e.grade = 'F' THEN 0.0 END
GradePoints(g) ==
  CASE g = Some("A") -> Some(4)
    [] g = Some("B") -> Some(3)
    [] g = Some("C") -> Some(2)
    [] g = Some("D") -> Some(1)
    [] g = Some("F") -> Some(0)
    [] OTHER -> Null

\* SUM of the grade points of the enrollments in S (all of them graded).
RECURSIVE SumPoints(_)
SumPoints(S) ==
  IF S = {} THEN 0
  ELSE LET e == CHOOSE y \in S : TRUE
       IN GradePoints(e.grade)[1] + SumPoints(S \ {e})

\* The rows of the course details query: the set of row lists the store may
\* answer with (LIMIT 1 without ORDER BY picks any student with an A).
CourseDetailsRows(d, courseId) ==
  LET cs == {c \in d.courses : Num(c.course_id) = SqlNumber(courseId)}
      Row(c, top) ==
        LET es == {e \in d.enrollments : e.course_id = c.course_id}
            joined == IF es = {} THEN 1 ELSE Cardinality(es)
            Count(g) == Cardinality({e \in es : e.grade = Some(g)})
            graded == {e \in es : GradePoints(e.grade) # Null}
        IN [course_id |-> c.course_id,
            course_name |-> c.course_name,
            credits |-> c.credits,
            department |-> c.department,
            total_students |-> Cardinality({e.student_id : e \in es}),
            grade_levels_represented |->
              Cardinality({s.grade : s \in {s \in d.students :
                             \E e \in es : e.student_id = s.student_id}}),
            count_A |-> Some(Count("A")),
            count_B |-> Some(Count("B")),
            count_C |-> Some(Count("C")),
            count_D |-> Some(Count("D")),
            count_F |-> Some(Count("F")),
            percent_A |-> Some(Round2(Count("A") * 100, joined)),
            percent_B |-> Some(Round2(Count("B") * 100, joined)),
            average_gpa |->
              IF graded = {} THEN Null
              ELSE Some(Round2(SumPoints(graded), Cardinality(graded))),
            latest_enrollment |->
              IF es = {} THEN Null ELSE Some(Max({e.enrollment_date : e \in es})),
            top_student_example |-> top]
      Tops(c) ==
        LET as == {s \in d.students :
                     \E e \in d.enrollments :
                        /\ e.student_id = s.student_id
                        /\ e.course_id = c.course_id
                        /\ e.grade = Some("A")}
        IN IF as = {} THEN {Null}
           ELSE {Some(<<s.first_name, " ", s.last_name>>) : s \in as}
  IN IF cs = {} THEN {<<>>}
     ELSE UNION {{<<Row(c, top)>> : top \in Tops(c)} : c \in cs}

\* ------------------------------------------------ aggregates of the reports
\* SUM(f) over the domain of f.
RECURSIVE SumFn(_)
SumFn(f) ==
  IF DOMAIN f = {} THEN 0
  ELSE LET x == CHOOSE y \in DOMAIN f : TRUE
       IN f[x] + SumFn([y \in DOMAIN f \ {x} |-> f[y]])

\* The course an enrollment refers to (its foreign key).
CourseOf(d, e) == CHOOSE c \in d.courses : c.course_id = e.course_id

\* The enrollments whose grade the CASE with an F branch and no ELSE maps to
\* a number; the others yield NULL, which SUM and AVG skip.
Graded(es) == {e \in es : GradePoints(e.grade) # Null}

\* AVG(x) of a DECIMAL(2,1) expression: sum / n with five decimals, in units
\* of 0.00001.
Avg5(sum, n) == (2 * 100000 * sum + n) \div (2 * n)

\* AVG(CASE WHEN e.grade = 'A' THEN 4.0 ... WHEN e.grade = 'F' THEN 0.0 END)
\* over the enrollments es: NULL when none of them is graded.
AvgGradePoints(es) ==
  IF Graded(es) = {} THEN Null
  ELSE Some(Avg5(SumPoints(Graded(es)), Cardinality(Graded(es))))

\* AVG(...) >= v for a number v, compared exactly; NULL >= v is not true.
AvgGradePointsAtLeast(es, v) ==
  /\ Graded(es) # {}
  /\ SumPoints(Graded(es)) * Pow10(v[3]) >= v[2] * Cardinality(Graded(es))

\* Popular courses: CASE WHEN e.grade = 'A' THEN 4.0 ... WHEN e.grade = 'D'
\* THEN 1.0 ELSE 0.0 END.  The ELSE branch takes F and a NULL grade alike.
PopularPoints(g) ==
  CASE g = Some("A") -> 4
    [] g = Some("B") -> 3
    [] g = Some("C") -> 2
    [] g = Some("D") -> 1
    [] OTHER -> 0

\* Popular courses: AVG(CASE ... ELSE 0.0 END) over the enrollments es.
PopularAverageGpa(es) ==
  Some(Avg5(SumFn([e \in es |-> PopularPoints(e.grade)]), Cardinality(es)))

\* Top performers: ROUND(SUM(CASE ... THEN points * c.credits ... END)
\* / SUM(c.credits), 2), in hundredths: the CASE is NULL for an ungraded
\* enrollment, SUM(c.credits) runs over every joined row.
WeightedGpa(d, es) ==
  IF Graded(es) = {} THEN Null
  ELSE Some(Round2(SumFn([e \in Graded(es) |->
                            GradePoints(e.grade)[1] * CourseOf(d, e).credits]),
                   SumFn([e \in es |-> CourseOf(d, e).credits])))

\* A rating whose tiers exclude their lower boundary.
PerformanceRatingStrict(es) ==
  IF Graded(es) = {} THEN "Satisfactory"
  ELSE IF 10 * SumPoints(Graded(es)) > 38 * Cardinality(Graded(es)) THEN "Outstanding"
  ELSE IF 10 * SumPoints(Graded(es)) > 35 * Cardinality(Graded(es)) THEN "Excellent"
  ELSE IF 10 * SumPoints(Graded(es)) > 30 * Cardinality(Graded(es)) THEN "Good"
  ELSE "Satisfactory"

\* Top performers: the CASE over AVG(grade points) naming the rating.
PerformanceRating(es) ==
  IF AvgGradePointsAtLeast(es, Dec(38, 1)) THEN "Outstanding"
  ELSE IF AvgGradePointsAtLeast(es, Dec(35, 1)) THEN "Excellent"
  ELSE IF AvgGradePointsAtLeast(es, Num(3)) THEN "Good"
  ELSE "Satisfactory"

\* ORDER BY k1 DESC, k2 DESC over pairs <<key, row>>, key = <<k1, k2>> (a NULL
\* key column is -1: NULLs come last in descending order).  The order of rows
\* with equal keys is the store's choice: every order is possible.
KeyLess(a, b) == a[1] < b[1] \/ (a[1] = b[1] /\ a[2] < b[2])

RECURSIVE OrderedDesc(_)
OrderedDesc(P) ==
  IF P = {} THEN {<<>>}
  ELSE UNION {{<<p[2]>> \o rest : rest \in OrderedDesc(P \ {p})} :
                p \in {m \in P : \A q \in P : ~KeyLess(m[1], q[1])}}

NullLast(v) == IF v = Null THEN -1 ELSE v[1]

\* LIMIT n
Limit(rows, n) == SubSeq(rows, 1, IF Len(rows) < n THEN Len(rows) ELSE n)

\* A threshold that a group has to exceed.
HavingCountAbove(n, t) == n > t

\* HAVING COUNT(e.enrollment_id) >= ?
HavingCountAtLeast(n, t) == n >= t

\* FROM courses c INNER JOIN enrollments e ON c.course_id = e.course_id: only
\* the courses that have an enrollment are in the join.
CoursesInnerJoined(d) ==
  {c \in d.courses : \E e \in d.enrollments : e.course_id = c.course_id}

\* ----------------------------------------------------- rows of the reports
\* Popular courses: the courses joined to their enrollments, grouped by
\* course, HAVING COUNT(e.enrollment_id) >= ?, ORDER BY enrollment_count DESC,
\* average_gpa DESC.
PopularCoursesRows(d, values) ==
  LET Es(c) == {e \in d.enrollments : e.course_id = c.course_id}
      cs == {c \in CoursesInnerJoined(d) :
               HavingCountAtLeast(Cardinality(Es(c)), values[1][2])}
      Row(c) ==
        [course_id |-> c.course_id, course_name |-> c.course_name,
         credits |-> c.credits, enrollment_count |-> Cardinality(Es(c)),
         average_gpa |-> PopularAverageGpa(Es(c))]
  IN OrderedDesc({<<<<Cardinality(Es(c)), PopularAverageGpa(Es(c))[1]>>, Row(c)>> :
                    c \in cs})

\* GROUP_CONCAT(CONCAT(c.course_name, ' (', e.grade, ')') ORDER BY
\* e.enrollment_date DESC SEPARATOR ' | '): the pieces in order; CONCAT is
\* NULL for a NULL grade and GROUP_CONCAT skips it.  The values the store may
\* give: the order of pieces with equal dates is its choice.
CourseHistory(d, es) ==
  LET lettered == {e \in es : e.grade # Null}
  IN IF lettered = {} THEN {Null}
     ELSE {Some([k \in DOMAIN o |-> <<CourseOf(d, o[k]).course_name, o[k].grade[1]>>]) :
             o \in OrderedDesc({<<<<e.enrollment_date, 0>>, e>> : e \in lettered})}

\* A bound array is written as the comma list of its items: well formed
\* inside IN (?) when it has an item, and in the place of a single value only
\* when it has exactly one; otherwise the statement has a syntax error.
BadList(op, values) ==
  \E k \in 1..Len(values) :
    /\ IsArr(values[k])
    /\ \/ Len(values[k][2]) = 0
       \/ Len(values[k][2]) >= 2 /\ op # "studentsInCourses"

\* Student performance: students joined to their enrollments and courses,
\* optionally WHERE s.grade = ?, grouped by student, HAVING AVG(...) >= ?,
\* ORDER BY gpa DESC, total_credits DESC.  No answer when a bound array makes
\* the statement ill-formed.
StudentPerformanceRows(d, values) ==
  LET Es(s) == {e \in d.enrollments : e.student_id = s.student_id}
      minGPA == values[Len(values)]
      ss == {s \in d.students :
               /\ Es(s) # {}
               /\ Len(values) = 2 => Num(s.grade) = SqlNumber(values[1])
               /\ AvgGradePointsAtLeast(Es(s), minGPA)}
      Credits(s) == SumFn([e \in Es(s) |-> CourseOf(d, e).credits])
      Row(s, history) ==
        [student_id |-> s.student_id, first_name |-> s.first_name,
         last_name |-> s.last_name, student_grade |-> s.grade,
         courses_taken |-> Cardinality(Es(s)),
         total_credits |-> Credits(s),
         gpa |-> AvgGradePoints(Es(s)),
         course_history |-> history]
  IN IF BadList("studentPerformance", values) THEN {}
     ELSE UNION {OrderedDesc({<<<<AvgGradePoints(Es(s))[1], Credits(s)>>, Row(s, h[s])>> :
                                s \in ss}) :
                   h \in {g \in [ss -> UNION {CourseHistory(d, Es(s)) : s \in ss}] :
                            \A s \in ss : g[s] \in CourseHistory(d, Es(s))}}

\* A query cut off one row later.
TopLimitPlusOne == 20 + 1

\* LIMIT 20 of the top performers query.
TopLimit == 20

\* Top performers: students joined to their enrollments and courses, grouped
\* by student, HAVING COUNT(DISTINCT e.course_id) >= ? AND weighted_gpa >= ?,
\* ORDER BY weighted_gpa DESC, courses_completed DESC LIMIT 20.
TopPerformersRows(d, values) ==
  LET Es(s) == {e \in d.enrollments : e.student_id = s.student_id}
      Completed(s) == Cardinality({e.course_id : e \in Es(s)})
      ss == {s \in d.students :
               /\ Es(s) # {}
               /\ Completed(s) >= values[1][2]
               /\ WeightedGpa(d, Es(s)) # Null
               /\ NumberAtLeast(WeightedGpa(d, Es(s))[1], 2, values[2])}
      Row(s) ==
        [student_id |-> s.student_id, first_name |-> s.first_name,
         last_name |-> s.last_name, email |-> s.email, student_grade |-> s.grade,
         courses_completed |-> Completed(s),
         total_credits_earned |-> SumFn([e \in Es(s) |-> CourseOf(d, e).credits]),
         weighted_gpa |-> WeightedGpa(d, Es(s)),
         a_count |-> Cardinality({e \in Es(s) : e.grade = Some("A")}),
         performance_rating |-> PerformanceRating(Es(s))]
  IN {Limit(rows, TopLimit) :
        rows \in OrderedDesc({<<<<WeightedGpa(d, Es(s))[1], Completed(s)>>, Row(s)>> :
                                s \in ss})}

\* AVG(c.credits) of an INT column: four decimals, in units of 0.0001.
Avg4(sum, n) == (2 * 10000 * sum + n) \div (2 * n)

\* Departments: courses LEFT JOINed to their enrollments (a course without
\* enrollments is one joined row), grouped by department, HAVING
\* COUNT(e.enrollment_id) > 0, ORDER BY total_enrollments DESC,
\* department_avg_gpa DESC.
DepartmentsRows(d) ==
  LET Cs(dep) == {c \in d.courses : c.department = dep}
      Es(dep) == {e \in d.enrollments : CourseOf(d, e).department = dep}
      \* joined rows per course
      Joined(c) ==
        LET n == Cardinality({e \in d.enrollments : e.course_id = c.course_id})
        IN IF n = 0 THEN 1 ELSE n
      NJoined(dep) == SumFn([c \in Cs(dep) |-> Joined(c)])
      CreditsJoined(dep) == SumFn([c \in Cs(dep) |-> c.credits * Joined(c)])
      Count(dep, gs) == Cardinality({e \in Es(dep) : e.grade \in gs})
      AvgGpa(dep) ==
        IF Graded(Es(dep)) = {} THEN Null
        ELSE Some(Round2(SumPoints(Graded(Es(dep))), Cardinality(Graded(Es(dep)))))
      deps == {dep \in {c.department : c \in d.courses} : Es(dep) # {}}
      Row(dep) ==
        [department |-> dep,
         total_courses |-> Cardinality(Cs(dep)),
         total_students |-> Cardinality({e.student_id : e \in Es(dep)}),
         total_credits_offered |-> CreditsJoined(dep),
         avg_credits_per_course |-> Avg4(CreditsJoined(dep), NJoined(dep)),
         total_enrollments |-> Cardinality(Es(dep)),
         avg_enrollments_per_course |->
           Round2(Cardinality(Es(dep)), Cardinality(Cs(dep))),
         department_avg_gpa |-> AvgGpa(dep),
         grade_distribution |->
           [A |-> Count(dep, {Some("A")}), B |-> Count(dep, {Some("B")}),
            C |-> Count(dep, {Some("C")})],
         success_rate_percent |->
           Round2(100 * Count(dep, {Some("A"), Some("B"), Some("C")}),
                  Cardinality(Es(dep)))]
  IN OrderedDesc({<<<<Cardinality(Es(dep)), NullLast(AvgGpa(dep))>>, Row(dep)>> :
                    dep \in deps})

\* A join that keeps only the students who have an enrollment.
StudentsInnerJoined(d) ==
  {s \in d.students : \E e \in d.enrollments : e.student_id = s.student_id}

\* FROM students s LEFT JOIN enrollments e: every student is in the join, the
\* ones without an enrollment as one row of NULLs.
StudentsLeftJoined(d) == d.students

\* ORDER BY s.last_name, ascending under the table's collation: the rank of
\* the last names of the small school (names of digits sort before letters).
Collation(name) == CASE name = "Lee" -> 1 [] name = "Ray" -> 2 [] OTHER -> 0

\* All students with enrollments: students LEFT JOINed to their enrollments
\* and those to their courses, grouped by student, COUNT(e.enrollment_id) and
\* GROUP_CONCAT(c.course_name) (the names in the order the store met them:
\* any order; NULL when there is none), ORDER BY s.last_name.
AllWithEnrollmentsRows(d) ==
  LET Es(s) == {e \in d.enrollments : e.student_id = s.student_id}
      Names(s) ==
        IF Es(s) = {} THEN {Null}
        ELSE {Some([k \in DOMAIN o |-> CourseOf(d, o[k]).course_name]) :
                o \in OrderedDesc({<<<<0, 0>>, e>> : e \in Es(s)})}
      ss == StudentsLeftJoined(d)
      Row(s, names) ==
        [student_id |-> s.student_id, first_name |-> s.first_name,
         last_name |-> s.last_name, grade |-> s.grade,
         total_enrollments |-> Cardinality(Es(s)), courses |-> names]
  IN UNION {OrderedDesc({<<<<0 - Collation(s.last_name), 0>>, Row(s, f[s])>> : s \in ss}) :
              f \in {g \in [ss -> UNION {Names(s) : s \in ss}] :
                       \A s \in ss : g[s] \in Names(s)}}


\* course_id IN (?) for a bound list of strings: the column equals the number
\* one of the strings stands for.
InList(id, list) == \E k \in 1..Len(list[2]) : SqlNumber(list[2][k]) = Num(id)

\* Students in courses: the students whose id is among the student ids of the
\* enrollments with course_id IN (second list), each with the count of its
\* enrollments with course_id IN (first list), ORDER BY matching_course_count
\* DESC, s.last_name.
StudentsInCoursesRows(d, values) ==
  LET Matching(s) ==
        {e \in d.enrollments : e.student_id = s.student_id /\ InList(e.course_id, values[1])}
      ss == {s \in d.students :
               \E e \in d.enrollments :
                 e.student_id = s.student_id /\ InList(e.course_id, values[2])}
      Row(s) ==
        [student_id |-> s.student_id, first_name |-> s.first_name,
         last_name |-> s.last_name, email |-> s.email, grade |-> s.grade,
         matching_course_count |-> Cardinality(Matching(s))]
  IN OrderedDesc({<<<<Cardinality(Matching(s)), 0 - Collation(s.last_name)>>, Row(s)>> :
                    s \in ss})


\* The rows of the reports whose query is not evaluated (students by grade,
\* student enrollments, students per grade): the store may answer with no
\* row, one row or two rows.
SomeRows == {<<>>, <<[row |-> 1]>>, <<[row |-> 1], [row |-> 2]>>}

\* The tables after the store has executed a statement: a SELECT leaves them
\* as they are; any other statement (here: of students-by-grade's shape)
\* changes them.
StoreApply(d, text, values) ==
  IF text[1] = Lit("SELECT") THEN d
  ELSE [d EXCEPT !.students =
          {s \in @ : Num(s.grade) # SqlNumber(values[1])}]

\* The statements the store refuses: one with a syntax error, and one with a
\* bound NaN or infinity, which is sent as the bare word NaN or Infinity and
\* refused as an unknown column.
StoreMayRefuse(op, values) ==
  \/ BadList(op, values)
  \/ \E k \in 1..Len(values) : values[k][1] \in {"nan", "inf"}

\* What the store may answer to a query while it is reachable: the possible
\* row lists (none when it refuses the statement).
StoreRows(d, op, values) ==
  CASE StoreMayRefuse(op, values) -> {}
    [] op = "courseDetails" -> CourseDetailsRows(d, values[1])
    [] op = "popularCourses" -> PopularCoursesRows(d, values)
    [] op = "studentPerformance" -> StudentPerformanceRows(d, values)
    [] op = "topPerformers" -> TopPerformersRows(d, values)
    [] op = "departments" -> DepartmentsRows(d)
    [] op = "allWithEnrollments" -> AllWithEnrollmentsRows(d)
    [] op = "studentsInCourses" -> StudentsInCoursesRows(d, values)
    [] op = "health" -> {<<[one |-> 1]>>}
    [] OTHER -> SomeRows

\* Error objects: the message is the detail of the failure.
ErrUnreachable == [message |-> "connect ECONNREFUSED mysql:3306"]
ErrPoolClosed == [message |-> "Pool is closed."]
ErrBadField == [message |-> "Unknown column 'NaN' in 'having clause'"]
ErrBadInfinity == [message |-> "Unknown column 'Infinity' in 'having clause'"]
ErrSyntax == [message |-> "You have an error in your SQL syntax"]
ErrTypeError == [message |-> "req.query.courseIds?.split is not a function"]

ErrorDetails ==
  {ErrUnreachable.message, ErrPoolClosed.message, ErrBadField.message,
   ErrBadInfinity.message, ErrSyntax.message,
   ErrTypeError.message}

\* ------------------------------------------------------------- the handlers
\* The synchronous part of a handler, up to its await or its early response:
\* it either hands a text and a list of bound values to pool.query, responds,
\* or throws inside its try block.
Query(text, values) == [kind |-> "query", text |-> text, values |-> values]
Respond(status, body) == [kind |-> "respond", status |-> status, body |-> body]
Throw(err) == [kind |-> "throw", err |-> err]

\* const minGPA = parseFloat(req.query.minGPA) || 0
PerformanceMinGPA(query) == Or(parseFloat(query.minGPA), Num(0))

\* A parameter list built without regard to the spliced predicate.
StudentPerformanceParamsUnconditional(grade, minGPA) == <<grade, minGPA>>

\* const params = grade ? [grade, minGPA] : [minGPA]
StudentPerformanceParams(grade, minGPA) ==
  IF Truthy(grade) THEN <<grade, minGPA>> ELSE <<minGPA>>

\* const minCourses = parseInt(req.query.minCourses) || 3
TopMinCourses(query) == Or(parseInt(query.minCourses), Num(3))

\* const minGPA = parseFloat(req.query.minGPA) || 3.5
TopMinGPA(query) == Or(parseFloat(query.minGPA), Dec(35, 1))

\* req.query.courseIds?.split(',') || []   (raw is undefined or a string)
CourseIds(raw) == IF raw = Undefined THEN Arr(<<>>) ELSE Or(split(raw), Arr(<<>>))

\* A 400 body that also carries a data field.
BadCourseIdsWithData ==
  [success |-> FALSE, error |-> "Please provide courseIds as comma-separated values",
   data |-> <<>>]

BadCourseIds ==
  [success |-> FALSE, error |-> "Please provide courseIds as comma-separated values"]

\* A handler that filters by the first course id only.
StudentsInCoursesBeginFirstOnly(raw) ==
  IF IsArr(raw) THEN Throw(ErrTypeError)
  ELSE LET courseIds == CourseIds(raw)
       IN IF Len(courseIds[2]) = 0
            THEN Respond(400, BadCourseIds)
            ELSE Query(StudentsInCoursesQuery, <<courseIds, Arr(<<courseIds[2][1]>>)>>)

StudentsInCoursesBegin(raw) ==
  IF IsArr(raw) THEN Throw(ErrTypeError)
  ELSE LET courseIds == CourseIds(raw)
       IN IF Len(courseIds[2]) = 0
            THEN Respond(400, BadCourseIds)
            ELSE Query(StudentsInCoursesQuery, <<courseIds, courseIds>>)

RootBody ==
  [message |-> "MySQL Express API - SQL Query Examples", version |-> "1.0.0",
   endpoints |-> "..."]

Begin(i) ==
  CASE i.op = "studentsByGrade" -> Query(StudentsByGradeQuery, <<i.params.grade>>)
    [] i.op = "studentEnrollments" ->
         Query(StudentEnrollmentsQuery, <<i.params.studentId>>)
    [] i.op = "allWithEnrollments" -> Query(AllWithEnrollmentsQuery, <<>>)
    [] i.op = "studentsPerGrade" -> Query(StudentsPerGradeQuery, <<>>)
    [] i.op = "popularCourses" ->
         Query(PopularCoursesQuery, <<parseInt(i.params.minEnrollments)>>)
    [] i.op = "studentPerformance" ->
         Query(StudentPerformanceQuery(i.query.grade),
               StudentPerformanceParams(i.query.grade, PerformanceMinGPA(i.query)))
    [] i.op = "studentsInCourses" -> StudentsInCoursesBegin(i.query.courseIds)
    [] i.op = "courseDetails" -> Query(CourseDetailsQuery, <<i.params.courseId>>)
    [] i.op = "topPerformers" ->
         Query(TopPerformersQuery, <<TopMinCourses(i.query), TopMinGPA(i.query)>>)
    [] i.op = "departments" -> Query(DepartmentsQuery, <<>>)
    [] i.op = "health" -> Query(SelectOne, <<>>)
    [] i.op = "root" -> Respond(200, RootBody)

\* The message of each handler's catch block.
ErrorMessage(op) ==
  CASE op = "studentsByGrade" -> "Failed to fetch students"
    [] op = "studentEnrollments" -> "Failed to fetch enrollments"
    [] op = "allWithEnrollments" -> "Failed to fetch data"
    [] op = "studentsPerGrade" -> "Failed to calculate analytics"
    [] op = "popularCourses" -> "Failed to fetch popular courses"
    [] op = "studentPerformance" -> "Failed to fetch performance data"
    [] op = "studentsInCourses" -> "Failed to fetch students"
    [] op = "courseDetails" -> "Failed to fetch course analytics"
    [] op = "topPerformers" -> "Failed to fetch top performers"
    [] op = "departments" -> "Failed to fetch department analytics"

Response(status, body) == [status |-> status, body |-> body]
NoResponse == <<>>

\* A catch block that answers with the error's own message.
OperationCatchLeaking(op, err) ==
  Response(500, [success |-> FALSE, error |-> err.message])

\* The catch block of one of the ten operations.
OperationCatch(op, err) ==
  Response(500, [success |-> FALSE, error |-> ErrorMessage(op)])

\* A /health catch block that answers 500 like the operations.
HealthCatchInternal(err) ==
  Response(500, [status |-> "unhealthy", database |-> "disconnected",
                 error |-> err.message])

\* The catch block of /health.
HealthCatch(err) ==
  Response(503, [status |-> "unhealthy", database |-> "disconnected",
                 error |-> err.message])

\* The catch block of the handler of i: the response (every catch block also
\* hands the error to logger.error).
OnError(i, err) ==
  IF i.op = "health" THEN HealthCatch(err) ELSE OperationCatch(i.op, err)

\* A course details handler without its not-found branch.
CourseDetailsResponseUnchecked(rows) ==
  IF Len(rows) = 0
    THEN Response(200, [success |-> TRUE])
    ELSE Response(200, [success |-> TRUE, data |-> rows[1]])

\* The course details handler after its query: 404 on no row, else the first row.
CourseDetailsResponse(rows) ==
  IF Len(rows) = 0
    THEN Response(404, [success |-> FALSE, error |-> "Course not found"])
    ELSE Response(200, [success |-> TRUE, data |-> rows[1]])

\* A health check that reports unhealthy although its query answered.
HealthTryUnhealthy ==
  Response(503, [status |-> "unhealthy", database |-> "disconnected",
                 timestamp |-> "now"])

\* The try block of /health after its query has answered.
HealthTry ==
  Response(200, [status |-> "healthy", database |-> "connected",
                 timestamp |-> "now"])

\* Handlers that answer 404 whenever their query finds nothing.
OnRowsNotFoundWhenEmpty(i, rows) ==
  IF Len(rows) = 0
    THEN Response(404, [success |-> FALSE, error |-> "Course not found"])
    ELSE Response(200, [success |-> TRUE, count |-> Len(rows), data |-> rows])

\* The handler of i after its query answered with rows.
OnRows(i, rows) ==
  CASE i.op = "studentsPerGrade" -> Response(200, [success |-> TRUE, data |-> rows])
    [] i.op = "studentPerformance" ->
         Response(200, [success |-> TRUE,
                        filters |-> [minGPA |-> PerformanceMinGPA(i.query),
                                     grade |-> Or(i.query.grade, Str(<<"a", "l", "l">>))],
                        count |-> Len(rows), data |-> rows])
    [] i.op = "studentsInCourses" ->
         Response(200, [success |-> TRUE, courseIds |-> CourseIds(i.query.courseIds),
                        count |-> Len(rows), data |-> rows])
    [] i.op = "courseDetails" -> CourseDetailsResponse(rows)
    [] i.op = "topPerformers" ->
         Response(200, [success |-> TRUE,
                        criteria |-> [minCourses |-> TopMinCourses(i.query),
                                      minGPA |-> TopMinGPA(i.query)],
                        count |-> Len(rows), data |-> rows])
    [] i.op = "health" -> HealthTry
    [] OTHER -> Response(200, [success |-> TRUE, count |-> Len(rows), data |-> rows])

\* ------------------------------------------------------------ dbConfig
\* A pool that rejects a caller when no connection is free.
waitForConnectionsOff == FALSE

connectionLimit == 10
queueLimit == 0
waitForConnections == TRUE

\* ---------------------------------------------------------------- the state
VARIABLES
  db,          \* the store's tables
  storeUp,     \* whether the store is reachable
  pool,        \* the module's `pool` variable: 0 while undefined, else an index of pools
  pools,       \* the pools mysql.createPool has made, in order of creation (the
               \* newest MaxFailures + 1 of them: see InitializeDatabase)
  initPc,      \* initializeDatabase: "start", "probing", "timer" or "ready"
  nFailed,     \* how many connection attempts have failed, counted up to
               \* MaxFailures + 1, which stands for that many or more
  listening,   \* whether app.listen has been called
  termPc,      \* the SIGTERM handler: "none", "ending" (awaiting pool.end()),
               \* "done" (it called process.exit) or "failed" (its await threw)
  exited,      \* whether the process has ended
  exitCode,    \* the code the process ended with: <<>> while it runs, else <<code>>
  req          \* the requests

vars ==
  <<db, storeUp, pool, pools, initPc, nFailed, listening, termPc, exited, exitCode, req>>

\* A pool: whether end() was called, its connections in use, its waiting callers.
NewPool == [closed |-> FALSE, busy |-> 0, queue |-> <<>>]

Idle ==
  [pc |-> "idle", input |-> <<>>, pool |-> 0, text |-> <<>>, values |-> <<>>,
   nQueries |-> 0, rows |-> Null, res |-> NoResponse, logged |-> <<>>]

\* pool.getConnection as dbConfig sets it up: a connection while fewer than
\* connectionLimit are in use; otherwise the caller waits (waitForConnections)
\* unless a non-zero queueLimit is reached.
GetConnection(pl) ==
  IF pl.closed THEN "closed"
  ELSE IF pl.busy < connectionLimit THEN "granted"
  ELSE IF ~waitForConnections THEN "none"
  ELSE IF queueLimit # 0 /\ Len(pl.queue) >= queueLimit THEN "full"
  ELSE "queued"

\* The pool after one of its connections is released: the first waiting caller
\* takes the connection over, else it goes back to the pool.
Release(pl) ==
  IF pl.queue # <<>> THEN [pl EXCEPT !.queue = Tail(@)]
  ELSE [pl EXCEPT !.busy = @ - 1]

\* A request ended by its handler's response.
Done(rq, i, response, logged) ==
  [rq EXCEPT !.pc = "done", !.input = i, !.res = response, !.logged = logged]

\* A handler that issues its query once more when the query is rejected.
AfterFailureRetrying(rq, err) ==
  IF rq.pc = "running" /\ rq.nQueries < 2
    THEN [rq EXCEPT !.nQueries = @ + 1, !.logged = <<err.message>>]
    ELSE Done(rq, rq.input, OnError(rq.input, err), <<err.message>>)

\* A catch block that logs the error and sends nothing.
AfterFailureSilent(rq, err) ==
  [rq EXCEPT !.pc = "done", !.logged = <<err.message>>]


\* The handler's continuation when its query is rejected: the catch block logs
\* the error and responds; nothing is issued again.
AfterFailure(rq, err) == Done(rq, rq.input, OnError(rq.input, err), <<err.message>>)

\* A continuation that answers with an empty list whatever its query returned.
AfterRowsDropped(rq, rows) ==
  [Done(rq, rq.input, OnRows(rq.input, <<>>), <<>>) EXCEPT !.rows = Some(rows)]


\* The handler's continuation when its query answers with rows.
AfterRows(rq, rows) ==
  [Done(rq, rq.input, OnRows(rq.input, rows), <<>>) EXCEPT !.rows = Some(rows)]

\* A catch block that logs the failure and sets no timer.
AfterProbeFailureNoRetry == "failed"

\* What initializeDatabase's catch block leaves behind: setTimeout(initializeDatabase, 5000).
AfterProbeFailure == "timer"

InitWith(tables, n) ==
  /\ db \in {Database(t) : t \in tables}
  /\ storeUp \in BOOLEAN
  /\ pool = 0
  /\ pools = <<>>
  /\ initPc = "start"
  /\ nFailed = 0
  /\ listening = FALSE
  /\ termPc = "none"
  /\ exited = FALSE
  /\ exitCode = Null
  /\ req = [r \in 1..n |-> Idle]

Init == InitWith({SampleTable}, MaxReq)

\* The program keeps no list of the pools it has made: it holds the newest in
\* `pool`, and an older one is held only by the requests whose query is on
\* it.  The model keeps the newest MaxFailures + 1 pools.  When one more is
\* made, the oldest pool that no request is waiting on is left out of `pools`
\* (0: none is left out yet); nothing in the program can reach that pool any
\* more.
Forgotten(ps, rqs) ==
  LET free == {p \in 1..Len(ps) :
                 \A r \in DOMAIN rqs :
                   rqs[r].pc \in {"running", "queued"} => rqs[r].pool # p}
  IN IF Len(ps) < MaxFailures + 1 \/ free = {} THEN 0
     ELSE CHOOSE p \in free : \A q \in free : p <= q

\* The pools without pool d, and the requests with their pool's new position.
Without(ps, d) ==
  IF d = 0 THEN ps ELSE SubSeq(ps, 1, d - 1) \o SubSeq(ps, d + 1, Len(ps))

Moved(rqs, d) ==
  [r \in DOMAIN rqs |->
     IF d # 0 /\ rqs[r].pc \in {"running", "queued"} /\ rqs[r].pool > d
       THEN [rqs[r] EXCEPT !.pool = @ - 1]
       ELSE rqs[r]]

\* An initializeDatabase that creates a pool only when there is none yet.
InitializeDatabaseReusing ==
  /\ pools' = IF pool = 0 THEN Append(pools, [NewPool EXCEPT !.busy = 1])
              ELSE [pools EXCEPT ![pool].busy = @ + 1]
  /\ pool' = IF pool = 0 THEN Len(pools) + 1 ELSE pool
  /\ req' = req
  /\ initPc' = "probing"


\* An initializeDatabase that keeps the new pool to itself until its SELECT 1
\* has been awaited.
InitializeDatabaseLate ==
  LET d == Forgotten(pools, req)
  IN /\ pools' = Append(Without(pools, d), [NewPool EXCEPT !.busy = 1])
     /\ pool' = pool
     /\ req' = Moved(req, d)
     /\ initPc' = "probing"


\* initializeDatabase up to its await: a new pool replaces the `pool` variable
\* and SELECT 1 is issued on it.
InitializeDatabase ==
  LET d == Forgotten(pools, req)
  IN /\ pools' = Append(Without(pools, d), [NewPool EXCEPT !.busy = 1])
     /\ pool' = Len(Without(pools, d)) + 1
     /\ req' = Moved(req, d)
     /\ initPc' = "probing"

\* The module's last statement: initializeDatabase().then(app.listen).
Startup ==
  /\ initPc = "start"
  /\ ~exited
  /\ InitializeDatabase
  /\ UNCHANGED <<db, storeUp, nFailed, listening, termPc, exited, exitCode>>

\* await pool.query('SELECT 1') resolves.  The promise of the first call
\* resolves with it, and its then-callback calls app.listen.
ProbeSucceeds ==
  /\ initPc = "probing"
  /\ ~exited
  /\ storeUp
  /\ pools' = [pools EXCEPT ![Len(pools)] = Release(@)]
  /\ initPc' = "ready"
  /\ listening' = TRUE
  /\ UNCHANGED <<db, storeUp, pool, nFailed, termPc, exited, exitCode, req>>

\* await pool.query('SELECT 1') rejects: the catch block logs, sets the timer
\* and returns, so the promise of the first call resolves all the same.
\* This happens as often as the store rejects the probe.
ProbeFails ==
  /\ initPc = "probing"
  /\ ~exited
  /\ ~storeUp
  /\ pools' = [pools EXCEPT ![Len(pools)] = Release(@)]
  /\ initPc' = AfterProbeFailure
  /\ nFailed' = IF nFailed <= MaxFailures THEN nFailed + 1 ELSE nFailed
  /\ listening' = TRUE
  /\ UNCHANGED <<db, storeUp, pool, termPc, exited, exitCode, req>>

\* The 5 second timer fires: initializeDatabase runs again.
TimerFires ==
  /\ initPc = "timer"
  /\ ~exited
  /\ InitializeDatabase
  /\ UNCHANGED <<db, storeUp, nFailed, listening, termPc, exited, exitCode>>

StoreGoesDown ==
  /\ storeUp
  /\ ~exited
  /\ storeUp' = FALSE
  /\ UNCHANGED <<db, pool, pools, initPc, nFailed, listening, termPc, exited, exitCode, req>>

StoreComesUp ==
  /\ ~storeUp
  /\ ~exited
  /\ storeUp' = TRUE
  /\ UNCHANGED <<db, pool, pools, initPc, nFailed, listening, termPc, exited, exitCode, req>>

\* A request arrives and its handler runs up to its await or its response.
Arrive(r, inputs) ==
  /\ listening
  /\ ~exited
  /\ req[r].pc = "idle"
  /\ IF r = 1 THEN TRUE ELSE req[r - 1].pc # "idle"
  /\ \E i \in inputs :
       LET b == Begin(i)
           rq == [req[r] EXCEPT !.input = i]
           got == IF b.kind = "query" THEN GetConnection(pools[pool]) ELSE "unused"
           asked == IF b.kind = "query"
                      THEN [rq EXCEPT !.pool = pool, !.text = b.text,
                                      !.values = b.values, !.nQueries = @ + 1]
                      ELSE rq
       IN /\ req' = [req EXCEPT ![r] =
                CASE b.kind = "respond" -> Done(rq, i, Response(b.status, b.body), <<>>)
                  [] b.kind = "throw" -> AfterFailure(rq, b.err)
                  [] got = "granted" -> [asked EXCEPT !.pc = "running"]
                  [] got = "queued" -> [asked EXCEPT !.pc = "queued"]
                  [] got = "closed" -> AfterFailure(asked, ErrPoolClosed)
                  [] OTHER -> AfterFailure(asked, [message |-> "No connections available."])]
          /\ pools' =
               IF got = "granted" THEN [pools EXCEPT ![pool].busy = @ + 1]
               ELSE IF got = "queued" THEN [pools EXCEPT ![pool].queue = Append(@, r)]
               ELSE pools
  /\ UNCHANGED <<db, storeUp, pool, initPc, nFailed, listening, termPc, exited, exitCode>>

\* The requests after request r gives its connection back: the first caller
\* waiting on that pool, if any, now runs its query.
Handover(rqs, p) ==
  IF pools[p].queue # <<>>
    THEN [rqs EXCEPT ![Head(pools[p].queue)].pc = "running"]
    ELSE rqs

\* The query of request r answers with rows, the store having executed it.
QuerySucceeds(r) ==
  /\ req[r].pc = "running"
  /\ ~exited
  /\ storeUp
  /\ \E rows \in StoreRows(db, req[r].input.op, req[r].values) :
       req' = Handover([req EXCEPT ![r] = AfterRows(@, rows)], req[r].pool)
  /\ pools' = [pools EXCEPT ![req[r].pool] = Release(@)]
  /\ db' = StoreApply(db, req[r].text, req[r].values)
  /\ UNCHANGED <<storeUp, pool, initPc, nFailed, listening, termPc, exited, exitCode>>

\* The errors the query of a running request may end with.
QueryErrors(rq) ==
  (IF storeUp THEN {} ELSE {ErrUnreachable})
  \cup (IF storeUp /\ StoreMayRefuse(rq.input.op, rq.values)
          THEN {IF BadList(rq.input.op, rq.values) THEN ErrSyntax
                ELSE IF \E k \in 1..Len(rq.values) : rq.values[k] = NaN
                  THEN ErrBadField ELSE ErrBadInfinity}
          ELSE {})

\* The query of request r is rejected.
QueryFails(r) ==
  /\ req[r].pc = "running"
  /\ ~exited
  /\ \E err \in QueryErrors(req[r]) :
       LET after == AfterFailure(req[r], err)
       IN IF after.pc = "done"
            THEN /\ req' = Handover([req EXCEPT ![r] = after], req[r].pool)
                 /\ pools' = [pools EXCEPT ![req[r].pool] = Release(@)]
            ELSE /\ req' = [req EXCEPT ![r] = after]
                 /\ pools' = pools
  /\ UNCHANGED <<db, storeUp, pool, initPc, nFailed, listening, termPc, exited, exitCode>>

\* SIGTERM, each time it arrives: the handler calls pool.end() on the current
\* pool and awaits it.  (The handler is registered by the module's last
\* statement, after the first call of initializeDatabase, so `pool` is set
\* whenever it runs.)
Sigterm ==
  /\ initPc # "start"
  /\ ~exited
  /\ IF pool # 0
       THEN /\ pools' = [pools EXCEPT ![pool].closed = TRUE]
            /\ termPc' = "ending"
            /\ exited' = FALSE
            /\ exitCode' = Null
       ELSE /\ pools' = pools
            /\ termPc' = "done"
            /\ exited' = TRUE
            /\ exitCode' = Some(0)
  /\ UNCHANGED <<db, storeUp, pool, initPc, nFailed, listening, req>>

\* pool.end() resolves and the handler calls process.exit(0).  Requests still
\* waiting for the store are left without a response.
PoolEnded ==
  /\ termPc = "ending"
  /\ ~exited
  /\ termPc' = "done"
  /\ exited' = TRUE
  /\ exitCode' = Some(0)
  /\ UNCHANGED <<db, storeUp, pool, pools, initPc, nFailed, listening, req>>

\* pool.end() rejects: the await throws in the handler, which has no try and
\* catch, so process.exit(0) is not reached and the promise of the handler is
\* rejected with nothing to handle it.  The runtime of the image (node:18)
\* ends the process on an unhandled rejection, with code 1.
PoolEndRejects ==
  /\ termPc = "ending"
  /\ ~exited
  /\ termPc' = "failed"
  /\ exited' = TRUE
  /\ exitCode' = Some(1)
  /\ UNCHANGED <<db, storeUp, pool, pools, initPc, nFailed, listening, req>>

Lifecycle ==
  \/ Startup
  \/ ProbeSucceeds
  \/ ProbeFails
  \/ TimerFires
  \/ StoreGoesDown
  \/ StoreComesUp
  \/ Sigterm
  \/ PoolEnded
  \/ PoolEndRejects

Requests(inputs) ==
  \/ \E r \in DOMAIN req : Arrive(r, inputs)
  \/ \E r \in DOMAIN req : QuerySucceeds(r)
  \/ \E r \in DOMAIN req : QueryFails(r)

\* The server from the start of the process, MaxReq requests.
Next == Lifecycle \/ Requests(CoreInputs)

Spec == Init /\ [][Next]_vars

\* The server from the start of the process, one request drawn from every
\* endpoint and every parameter value.
InitReq == InitWith({SampleTable}, 1)

NextReq == Lifecycle \/ Requests(AllInputs)

SpecReq == InitReq /\ [][NextReq]_vars

\* The server once the first connection attempt has succeeded (the state
\* Startup and ProbeSucceeds lead to), over the enrollment tables in `tables`,
\* n requests to come.
ReadyOn(dbs, n) ==
  /\ db \in dbs
  /\ storeUp = TRUE
  /\ pool = 1
  /\ pools = <<NewPool>>
  /\ initPc = "ready"
  /\ nFailed = 0
  /\ listening = TRUE
  /\ termPc = "none"
  /\ exited = FALSE
  /\ exitCode = Null
  /\ req = [r \in 1..n |-> Idle]

ReadyWith(tables, n) == ReadyOn({Database(t) : t \in tables}, n)

Store == StoreGoesDown \/ StoreComesUp

\* Two requests side by side, each drawn from every endpoint and value.
InitPair == ReadyWith({SampleTable}, 2)

NextPair == Store \/ Requests(AllInputs)

SpecPair == InitPair /\ [][NextPair]_vars

\* One request against every enrollment table.
SpecData == ReadyWith(EnrollmentTables, 1) /\ [][NextPair]_vars

\* One top performers request against the larger school, the two students of
\* the small one having every enrollment table.
NextTop == Store \/ Requests({i \in AllInputs : i.op = "topPerformers"})

SpecTop ==
  ReadyOn({RosterDatabase(t) : t \in EnrollmentTables}, 1) /\ [][NextTop]_vars

\* Two requests side by side, drawn from the requests that take each path
\* through a handler (early 400, 404, success, caught failure), where every
\* store call settles: a query that is running is answered or rejected in the
\* end.
NextSettle == Store \/ Requests(CoreInputs)

SpecSettle ==
  /\ InitPair
  /\ [][NextSettle]_vars
  /\ \A r \in 1..2 : WF_vars(QuerySucceeds(r) \/ QueryFails(r))


\* PoolReqs requests to /health against a reachable store: more requests than
\* the pool has connections.  The store answers every query it is running.
InitPool == ReadyWith({SampleTable}, PoolReqs)

NextPool ==
  \/ \E r \in DOMAIN req : Arrive(r, {HealthInput})
  \/ \E r \in DOMAIN req : QuerySucceeds(r)

SpecPool ==
  /\ InitPool
  /\ [][NextPool]_vars
  /\ WF_vars(\E r \in 1..PoolReqs : QuerySucceeds(r))

\* The server from the start of the process with one request, under the
\* fairness the event loop gives: a pending call, a timer that was set and a
\* settled query promise are each run in the end.
SpecLive ==
  /\ InitReq
  /\ [][Next]_vars
  /\ WF_vars(Startup)
  /\ WF_vars(TimerFires)
  /\ WF_vars(ProbeSucceeds)
  /\ WF_vars(ProbeFails)

\* The server from the start of the process with one request, where a
\* pool.end() that was called settles in the end.
SpecTerm ==
  /\ InitReq
  /\ [][Next]_vars
  /\ WF_vars(PoolEnded \/ PoolEndRejects)


\* ------------------------------------------------------------------ claims
Reqs == DOMAIN req
Asked(r) == req[r].nQueries > 0
IsDone(r) == req[r].pc = "done"
OpOf(r) == req[r].input.op

\* C1 (as amended).  Two requests to the same operation are handed to
\* pool.query with the same text whatever their parameter values are, the
\* text holds only fixed fragments and placeholders, and the one choice of
\* text is student performance choosing between two templates by whether
\* `grade` is a non-empty value.
C1_TextIndependentOfValues ==
  \A r1, r2 \in Reqs :
    (Asked(r1) /\ Asked(r2) /\ OpOf(r1) = OpOf(r2)) =>
      /\ \A k \in 1..Len(req[r1].text) : req[r1].text[k][1] \in {"lit", "?"}
      /\ (OpOf(r1) = "studentPerformance" =>
            Truthy(req[r1].input.query.grade) = Truthy(req[r2].input.query.grade))
         => req[r1].text = req[r2].text

\* C1, witness: two student performance requests whose grades differ, one of
\* them carrying SQL metacharacters, have both reached pool.query.
C1_Witness ==
  /\ Asked(1) /\ Asked(2)
  /\ OpOf(1) = "studentPerformance" /\ OpOf(2) = "studentPerformance"
  /\ req[1].input.query.grade = Str(Chars10)
  /\ req[2].input.query.grade = Str(CharsMeta)
  /\ req[1].values # req[2].values

\* C1 as stated: the template is chosen by whether `grade` is supplied at all.
C1_Original ==
  \A r1, r2 \in Reqs :
    (Asked(r1) /\ Asked(r2) /\ OpOf(r1) = OpOf(r2)) =>
      ((OpOf(r1) = "studentPerformance" =>
          (req[r1].input.query.grade = Undefined) = (req[r2].input.query.grade = Undefined))
       => req[r1].text = req[r2].text)

\* C2 (as amended).  Every text handed to pool.query has as many placeholders
\* as the list of bound values has entries.  Student performance with `grade`
\* omitted or empty binds exactly [minGPA] to a one-placeholder template; with
\* a non-empty `grade` it binds exactly [grade, minGPA] to a two-placeholder
\* template whose first placeholder is the grade predicate's.
C2_ParamsInLockStep ==
  \A r \in Reqs :
    Asked(r) =>
      /\ NumPlaceholders(req[r].text) = Len(req[r].values)
      /\ OpOf(r) = "studentPerformance" =>
           LET grade == req[r].input.query.grade
               minGPA == PerformanceMinGPA(req[r].input.query)
               text == req[r].text
           IN IF grade \in {Undefined, Str(<<>>)}
                THEN /\ NumPlaceholders(text) = 1
                     /\ req[r].values = <<minGPA>>
                ELSE /\ NumPlaceholders(text) = 2
                     /\ req[r].values = <<grade, minGPA>>
                     /\ text[3] = Lit("AND s.grade =")
                     /\ text[4] = Placeholder
                     /\ text[6] = Placeholder

\* C2, witness: a student performance request whose grade carries SQL
\* metacharacters has reached pool.query with [grade, 3.5] bound.
C2_Witness ==
  \E r \in Reqs :
    /\ Asked(r)
    /\ OpOf(r) = "studentPerformance"
    /\ req[r].input.query.grade = Str(CharsMeta)
    /\ req[r].values = <<Str(CharsMeta), Dec(35, 1)>>

\* C2 as stated: whenever `grade` is supplied the template has two
\* placeholders and the list is [grade, minGPA].
C2_Original ==
  \A r \in Reqs :
    (Asked(r) /\ OpOf(r) = "studentPerformance"
       /\ req[r].input.query.grade # Undefined) =>
      /\ NumPlaceholders(req[r].text) = 2
      /\ req[r].values =
           <<req[r].input.query.grade, PerformanceMinGPA(req[r].input.query)>>

\* C3 as stated: students in courses with an empty or absent courseIds answers
\* 400 and never reaches the store.
C3_EmptyCourseIdsRejected ==
  \A r \in Reqs :
    (req[r].pc # "idle" /\ OpOf(r) = "studentsInCourses"
       /\ req[r].input.query.courseIds \in {Undefined, Str(<<>>)}) =>
      /\ req[r].nQueries = 0
      /\ req[r].res = Response(400, BadCourseIds)

\* Whether the bound course id matches a row of the courses table.
CourseExists(d, courseId) ==
  \E c \in d.courses : Num(c.course_id) = SqlNumber(courseId)

HasEnrollments(d, courseId) ==
  \E e \in d.enrollments : Num(e.course_id) = SqlNumber(courseId)

\* C4.  Course details, its query having answered: 404 with
\* {success:false, error:'Course not found'} exactly when the course id
\* matches no course; for a course without enrollments 200 with one data
\* object whose counts and percentages are zero or null and whose
\* top_student_example is null.
C4_CourseDetailsNotFound ==
  \A r \in Reqs :
    (IsDone(r) /\ OpOf(r) = "courseDetails" /\ req[r].res.status # 500) =>
      LET id == req[r].input.params.courseId
          res == req[r].res
      IN /\ req[r].nQueries = 1
         /\ res.status \in {200, 404}
         /\ res.status = 404 <=> ~CourseExists(db, id)
         /\ res.status = 404 =>
              res.body = [success |-> FALSE, error |-> "Course not found"]
         /\ res.status = 200 =>
              /\ DOMAIN res.body = {"success", "data"}
              /\ res.body.success = TRUE
              /\ Num(res.body.data.course_id) = SqlNumber(id)
         /\ (CourseExists(db, id) /\ ~HasEnrollments(db, id)) =>
              /\ res.status = 200
              /\ res.body.data.total_students = 0
              /\ res.body.data.grade_levels_represented = 0
              /\ \A f \in {"count_A", "count_B", "count_C", "count_D", "count_F",
                           "percent_A", "percent_B", "average_gpa"} :
                   res.body.data[f] \in {Some(0), Null}
              /\ res.body.data.top_student_example = Null

\* C4, witness: course details has answered 200 for a course nobody is
\* enrolled in.
C4_Witness ==
  \E r \in Reqs :
    /\ IsDone(r)
    /\ OpOf(r) = "courseDetails"
    /\ req[r].input.params.courseId = Str(<<"2">>)
    /\ ~HasEnrollments(db, Str(<<"2">>))
    /\ req[r].res.status = 200

\* C5.  A request to one of the ten operations whose handler caught a failure
\* (from the store call or from inside its try block) has answered 500 with
\* {success:false, error: m}, m the operation's fixed message, which is not
\* the text of the failure.
C5_GenericFailure ==
  \A r \in Reqs :
    (IsDone(r) /\ OpOf(r) \in Operations) =>
      /\ req[r].logged # <<>> =>
           /\ req[r].res = Response(500, [success |-> FALSE, error |-> ErrorMessage(OpOf(r))])
           /\ req[r].res.body.error \notin ErrorDetails
           /\ req[r].res.body.error # req[r].logged[1]
      /\ req[r].res.status = 500 => req[r].logged # <<>>

\* C5, witness: an operation has answered 500 after its query failed against
\* an unreachable store.
C5_Witness ==
  \E r \in Reqs :
    /\ IsDone(r)
    /\ OpOf(r) = "topPerformers"
    /\ req[r].logged = <<ErrUnreachable.message>>
    /\ req[r].res.status = 500

\* C6 as stated: no response of any endpoint, /health included, carries the
\* detail of a store or transport failure.
C6_NoErrorDetailReturned ==
  \A r \in Reqs :
    (IsDone(r) /\ "error" \in DOMAIN req[r].res.body) =>
      req[r].res.body.error \notin ErrorDetails

\* C7 as stated: the server listens, and a request is handled, only after a
\* SELECT 1 of initializeDatabase has succeeded.
C7_ListenAfterConnect ==
  (listening \/ \E r \in Reqs : req[r].pc # "idle") => initPc = "ready"

\* C8.  A failed connection attempt leaves the process running with the next
\* attempt scheduled, however many have failed before; the scheduled attempt
\* is made, on a new pool, when the timer fires; once an attempt has succeeded
\* none is scheduled or made again; only the SIGTERM handler ends the process.
\* While the process runs, every scheduled attempt is made in the end; if
\* the store stays unreachable and no attempt has succeeded (and no SIGTERM
\* arrives), attempts are scheduled and made again and again without end; and
\* if the store becomes and stays reachable an attempt succeeds in the end.
C8_RetryUntilConnected ==
  /\ [][(initPc = "probing" /\ ~storeUp /\ initPc' # "probing")
          => (initPc' = "timer" /\ ~exited')]_vars
  /\ [][(initPc = "probing" /\ nFailed' # nFailed)
          => (initPc' = "timer" /\ ~exited' /\ nFailed' = nFailed + 1)]_vars
  /\ [][(initPc = "timer" /\ initPc' # "timer")
          => (/\ initPc' = "probing"
              /\ pool' = Len(pools')
              /\ pools'[pool'] = [NewPool EXCEPT !.busy = 1]
              /\ Len(pools) < MaxFailures + 1 => pools' = Append(pools, pools'[pool']))]_vars
  /\ [][initPc = "ready" => initPc' = "ready"]_vars
  /\ [][(~exited /\ exited') => termPc = "ending"]_vars
  /\ (initPc = "timer") ~> (initPc = "probing" \/ exited)
  /\ (<>[](~storeUp /\ termPc = "none" /\ initPc # "ready")
        => ([]<>(initPc = "timer") /\ []<>(initPc = "probing")))
  /\ (<>[](storeUp /\ termPc = "none") => <>(initPc = "ready"))

\* C8, witness: the connection is established after more failed attempts
\* than MaxFailures.
C8_Witness == nFailed > MaxFailures /\ initPc = "ready" /\ ~exited

Range(q) == {q[k] : k \in 1..Len(q)}

\* C9.  A pool never has more than 10 connections in use, one per running
\* query; a caller that finds all 10 in use waits in the pool's queue, however
\* many are waiting already, and no request is ever rejected: every finished
\* request was served, and in the end no request is left waiting or running.
C9_PoolBounded ==
  /\ [](\A p \in 1..Len(pools) :
          /\ pools[p].busy <= 10
          /\ pools[p].busy =
               Cardinality({r \in Reqs : req[r].pc = "running" /\ req[r].pool = p})
          /\ Range(pools[p].queue) = {r \in Reqs : req[r].pc = "queued" /\ req[r].pool = p}
          /\ pools[p].queue # <<>> => pools[p].busy = 10)
  /\ [](\A r \in Reqs : IsDone(r) => req[r].res.status = 200)
  /\ <>[](\A r \in Reqs : req[r].pc \notin {"queued", "running"})

\* C9, witness: all 10 connections are in use, two more requests wait in the
\* queue, and none has been answered yet.
C9_Witness ==
  /\ pools[1].busy = 10
  /\ Len(pools[1].queue) >= 2
  /\ \A r \in Reqs : req[r].pc # "idle" => ~IsDone(r)

\* C10.  A request to one of the ten operations issues at most one query, and
\* once its query has failed it is over: answered 500, nothing issued again.
C10_NoRequestRetry ==
  \A r \in Reqs :
    (req[r].pc # "idle" /\ OpOf(r) \in Operations) =>
      /\ req[r].nQueries <= 1
      /\ req[r].logged # <<>> => (IsDone(r) /\ req[r].res.status = 500)

\* C10, witness: an operation has answered 500 after its one query failed.
C10_Witness ==
  \E r \in Reqs :
    /\ IsDone(r)
    /\ OpOf(r) = "studentsByGrade"
    /\ req[r].nQueries = 1
    /\ req[r].logged # <<>>
    /\ req[r].res.status = 500

\* C11.  Every statement handed to pool.query is a SELECT, and no step of the
\* server or of the store executing its statements changes the students,
\* courses and enrollments tables.
C11_ReadOnly ==
  /\ [](\A r \in Reqs : Asked(r) => req[r].text[1] = Lit("SELECT"))
  /\ [][db' = db]_vars

\* C11, witness: two requests with bound values, one of them
\* `10; DROP TABLE students`, have been executed by the store and answered 200.
C11_Witness ==
  /\ IsDone(1) /\ IsDone(2)
  /\ OpOf(1) = "studentsByGrade" /\ OpOf(2) = "studentsInCourses"
  /\ req[1].values = <<Str(Chars10)>>
  /\ req[2].input.query.courseIds = Str(CharsMeta)
  /\ req[1].res.status = 200 /\ req[2].res.status = 200
  /\ db = Database(SampleTable)

ErrorStrings ==
  {ErrorMessage(op) : op \in Operations} \cup {"Course not found", BadCourseIds.error}

\* C12 (as amended).  Every response of the ten operations is either a success
\* body, with success = true, a data field and no top-level key other than
\* success, count, data, filters and criteria, except that students in
\* courses also carries courseIds; or a failure body, which is exactly
\* {success: false, error: <string>}.
C12_Envelope ==
  \A r \in Reqs :
    (IsDone(r) /\ OpOf(r) \in Operations) =>
      LET body == req[r].res.body
      IN IF req[r].res.status = 200
           THEN /\ body.success = TRUE
                /\ "data" \in DOMAIN body
                /\ DOMAIN body \subseteq
                     {"success", "count", "data", "filters", "criteria"}
                       \cup (IF OpOf(r) = "studentsInCourses" THEN {"courseIds"} ELSE {})
                /\ OpOf(r) = "studentsInCourses" => "courseIds" \in DOMAIN body
           ELSE /\ DOMAIN body = {"success", "error"}
                /\ body.success = FALSE
                /\ body.error \in ErrorStrings

\* C12, witness: students in courses has answered 200, echoing the ids.
C12_Witness ==
  \E r \in Reqs :
    /\ IsDone(r)
    /\ OpOf(r) = "studentsInCourses"
    /\ req[r].input.query.courseIds = Str(<<"1", ",", "2">>)
    /\ req[r].res.status = 200
    /\ req[r].res.body.courseIds = Arr(<<Str(<<"1">>), Str(<<"2">>)>>)

\* C12 as stated: a success body has no top-level key other than success,
\* count, data, filters and criteria.
C12_Original ==
  \A r \in Reqs :
    (IsDone(r) /\ OpOf(r) \in Operations) =>
      LET body == req[r].res.body
      IN IF body.success
           THEN /\ "data" \in DOMAIN body
                /\ DOMAIN body \subseteq {"success", "count", "data", "filters", "criteria"}
           ELSE /\ "error" \in DOMAIN body
                /\ "data" \notin DOMAIN body

\* The status codes documented for each endpoint.
DocumentedStatuses(op) ==
  CASE op = "studentsInCourses" -> {200, 400, 500}
    [] op = "courseDetails" -> {200, 404, 500}
    [] op = "health" -> {200, 503}
    [] op = "root" -> {200}
    [] OTHER -> {200, 500}

\* C13.  Every response a handler gives carries a status code of its
\* endpoint's documented set.
C13_DocumentedStatus ==
  \A r \in Reqs : IsDone(r) => req[r].res.status \in DocumentedStatuses(OpOf(r))

\* C13, witness: /health has answered 503 while the store was unreachable.
C13_Witness ==
  \E r \in Reqs :
    /\ IsDone(r)
    /\ OpOf(r) = "health"
    /\ req[r].res.status = 503
    /\ req[r].logged = <<ErrUnreachable.message>>

\* C14.  A request to one of the ten operations whose query answered with no
\* row has been answered 200 with success = true, data the empty list and, if
\* the body has one, count 0, unless it is course details, which has answered
\* 404; and no other operation ever answers 404.
C14_EmptyIsNotAnError ==
  \A r \in Reqs :
    (IsDone(r) /\ OpOf(r) \in Operations) =>
      /\ req[r].rows = Some(<<>>) =>
           IF OpOf(r) = "courseDetails"
             THEN req[r].res.status = 404
             ELSE /\ req[r].res.status = 200
                  /\ req[r].res.body.success = TRUE
                  /\ req[r].res.body.data = <<>>
                  /\ "count" \in DOMAIN req[r].res.body => req[r].res.body.count = 0
      /\ req[r].res.status = 404 => OpOf(r) = "courseDetails"

\* C14, witness: top performers, nobody meeting the default thresholds, has
\* answered 200 with an empty list.
C14_Witness ==
  \E r \in Reqs :
    /\ IsDone(r)
    /\ OpOf(r) = "topPerformers"
    /\ req[r].rows = Some(<<>>)
    /\ req[r].res.status = 200
    /\ req[r].res.body.count = 0

\* The rows of the success response of request r (course details: its one row).
DataRows(r) ==
  IF OpOf(r) = "courseDetails" THEN <<req[r].res.body.data>> ELSE req[r].res.body.data

Answered(r, op) == IsDone(r) /\ OpOf(r) = op /\ req[r].res.status = 200

EnrollmentsOfCourse(id) == {e \in db.enrollments : e.course_id = id}
EnrollmentsOfStudent(id) == {e \in db.enrollments : e.student_id = id}
EnrollmentsOfDepartment(dep) ==
  {e \in db.enrollments : CourseOf(db, e).department = dep}
WithGrade(es) == {e \in es : e.grade # Null}

\* C15 as stated: in every row of the five reports, each GPA-style aggregate
\* is what the same aggregate gives over the group's enrollments that have a
\* grade: an enrollment with a null grade changes neither sum nor divisor.
C15_NullGradeExcluded ==
  \A r \in Reqs :
    /\ Answered(r, "popularCourses") =>
         \A k \in 1..Len(DataRows(r)) :
           LET row == DataRows(r)[k]
               es == WithGrade(EnrollmentsOfCourse(row.course_id))
           IN row.average_gpa = IF es = {} THEN Null ELSE PopularAverageGpa(es)
    /\ Answered(r, "studentPerformance") =>
         \A k \in 1..Len(DataRows(r)) :
           LET row == DataRows(r)[k]
           IN row.gpa = AvgGradePoints(WithGrade(EnrollmentsOfStudent(row.student_id)))
    /\ Answered(r, "courseDetails") =>
         LET row == DataRows(r)[1]
             es == WithGrade(EnrollmentsOfCourse(row.course_id))
         IN row.average_gpa =
              IF es = {} THEN Null ELSE Some(Round2(SumPoints(es), Cardinality(es)))
    /\ Answered(r, "topPerformers") =>
         \A k \in 1..Len(DataRows(r)) :
           LET row == DataRows(r)[k]
               es == WithGrade(EnrollmentsOfStudent(row.student_id))
           IN /\ row.weighted_gpa = WeightedGpa(db, es)
              /\ row.performance_rating = PerformanceRating(es)
    /\ Answered(r, "departments") =>
         \A k \in 1..Len(DataRows(r)) :
           LET row == DataRows(r)[k]
               es == WithGrade(EnrollmentsOfDepartment(row.department))
           IN row.department_avg_gpa =
                IF es = {} THEN Null ELSE Some(Round2(SumPoints(es), Cardinality(es)))

\* The grade points of a letter, F being 0.
LetterPoints(g) ==
  CASE g = Some("A") -> 4 [] g = Some("B") -> 3 [] g = Some("C") -> 2
    [] g = Some("D") -> 1 [] g = Some("F") -> 0

SumLetterPoints(es) == SumFn([e \in es |-> LetterPoints(e.grade)])

\* C16 (as amended).  In all five GPA computations an enrollment graded F
\* counts: it adds 0.0 to the sum and 1 to the divisor (its credits, in the
\* weighted GPA).  Student performance, course details, top performers and
\* departments do so by their F branch; popular courses by its ELSE 0.0
\* branch (its divisor being the number of the course's enrollments).
C16_FCountsAsZero ==
  \A r \in Reqs :
    /\ Answered(r, "studentPerformance") =>
         \A k \in 1..Len(DataRows(r)) :
           LET row == DataRows(r)[k]
               es == WithGrade(EnrollmentsOfStudent(row.student_id))
           IN row.gpa = Some(Avg5(SumLetterPoints(es), Cardinality(es)))
    /\ Answered(r, "courseDetails") =>
         LET row == DataRows(r)[1]
             es == WithGrade(EnrollmentsOfCourse(row.course_id))
         IN es # {} =>
              row.average_gpa = Some(Round2(SumLetterPoints(es), Cardinality(es)))
    /\ Answered(r, "topPerformers") =>
         \A k \in 1..Len(DataRows(r)) :
           LET row == DataRows(r)[k]
               all == EnrollmentsOfStudent(row.student_id)
               es == WithGrade(all)
           IN /\ row.weighted_gpa =
                   Some(Round2(SumFn([e \in es |-> LetterPoints(e.grade) * CourseOf(db, e).credits]),
                               SumFn([e \in all |-> CourseOf(db, e).credits])))
              /\ row.performance_rating = "Outstanding"
                   <=> 10 * SumLetterPoints(es) >= 38 * Cardinality(es)
    /\ Answered(r, "departments") =>
         \A k \in 1..Len(DataRows(r)) :
           LET row == DataRows(r)[k]
               es == WithGrade(EnrollmentsOfDepartment(row.department))
           IN es # {} =>
                row.department_avg_gpa = Some(Round2(SumLetterPoints(es), Cardinality(es)))
    /\ Answered(r, "popularCourses") =>
         \A k \in 1..Len(DataRows(r)) :
           LET row == DataRows(r)[k]
               all == EnrollmentsOfCourse(row.course_id)
           IN row.average_gpa =
                Some(Avg5(SumLetterPoints(WithGrade(all)), Cardinality(all)))

\* C16, witness: student performance has reported gpa 2.0 for a student with
\* an A and an F.
C16_Witness ==
  \E r \in Reqs :
    /\ Answered(r, "studentPerformance")
    /\ Len(DataRows(r)) = 1
    /\ DataRows(r)[1].student_id = 1
    /\ {e.grade : e \in EnrollmentsOfStudent(1)} = {Some("A"), Some("F")}
    /\ DataRows(r)[1].gpa = Some(200000)

\* C16 as stated, for popular courses: an enrollment graded F is left out of
\* average_gpa, which is the average over the course's other enrollments.
C16_Original ==
  \A r \in Reqs :
    Answered(r, "popularCourses") =>
      \A k \in 1..Len(DataRows(r)) :
        LET row == DataRows(r)[k]
            es == {e \in EnrollmentsOfCourse(row.course_id) : e.grade # Some("F")}
        IN row.average_gpa = IF es = {} THEN Null ELSE PopularAverageGpa(es)

\* The credit-weighted average of the grade points of the graded enrollments
\* among es, rounded to 2 decimals (hundredths).
CreditWeightedAverage(es) ==
  LET g == WithGrade(es)
  IN Round2(SumFn([e \in g |-> LetterPoints(e.grade) * CourseOf(db, e).credits]),
            SumFn([e \in g |-> CourseOf(db, e).credits]))

\* C17 as stated: in every row of top performers weighted_gpa is the
\* credit-weighted average of the student's grade points, rounded to 2
\* decimals; for an A in a 4-credit course and a B in a 3-credit course, 3.57.
C17_WeightedGpa ==
  \A r \in Reqs :
    Answered(r, "topPerformers") =>
      \A k \in 1..Len(DataRows(r)) :
        LET row == DataRows(r)[k]
            es == EnrollmentsOfStudent(row.student_id)
        IN /\ row.weighted_gpa = Some(CreditWeightedAverage(es))
           /\ {<<e.grade, CourseOf(db, e).credits>> : e \in es}
                 = {<<Some("A"), 4>>, <<Some("B"), 3>>}
              => row.weighted_gpa = Some(357)

\* Top performers, as the response of request r tells it: the thresholds
\* bound into the query (echoed as criteria) and a row's sort key.
MinCoursesOf(r) == req[r].res.body.criteria.minCourses[2]
MinGpaOf(r) == req[r].res.body.criteria.minGPA
RowKey(row) == <<row.weighted_gpa[1], row.courses_completed>>
CoursesOfStudent(id) == {e.course_id : e \in EnrollmentsOfStudent(id)}

\* Whether student s meets both thresholds of request r.
Qualifies(r, s) ==
  /\ Cardinality(CoursesOfStudent(s.student_id)) >= MinCoursesOf(r)
  /\ WeightedGpa(db, EnrollmentsOfStudent(s.student_id)) # Null
  /\ NumberAtLeast(WeightedGpa(db, EnrollmentsOfStudent(s.student_id))[1], 2, MinGpaOf(r))

\* C18.  Top performers returns at most 20 rows, one per student; every row
\* has a distinct course count >= minCourses and a weighted_gpa >= minGPA;
\* a student without a row either fails a threshold, or 20 rows are returned
\* and none of them ranks below that student; and the rows are in descending
\* order of weighted_gpa, then of courses_completed.
C18_TopTwenty ==
  \A r \in Reqs :
    Answered(r, "topPerformers") =>
      LET rows == DataRows(r)
          ids == {rows[k].student_id : k \in 1..Len(rows)}
      IN /\ Len(rows) <= 20
         /\ Cardinality(ids) = Len(rows)
         /\ \A k \in 1..Len(rows) :
              /\ rows[k].courses_completed = Cardinality(CoursesOfStudent(rows[k].student_id))
              /\ rows[k].courses_completed >= MinCoursesOf(r)
              /\ rows[k].weighted_gpa # Null
              /\ NumberAtLeast(rows[k].weighted_gpa[1], 2, MinGpaOf(r))
         /\ \A s \in db.students :
              s.student_id \notin ids =>
                \/ ~Qualifies(r, s)
                \/ /\ Len(rows) = 20
                   /\ \A k \in 1..20 :
                        ~KeyLess(RowKey(rows[k]),
                                 <<WeightedGpa(db, EnrollmentsOfStudent(s.student_id))[1],
                                   Cardinality(CoursesOfStudent(s.student_id))>>)
         /\ \A k \in 1..(Len(rows) - 1) : ~KeyLess(RowKey(rows[k]), RowKey(rows[k + 1]))

\* C18, witness: 20 rows are returned and a student who meets both
\* thresholds is not among them.
C18_Witness ==
  \E r \in Reqs :
    /\ Answered(r, "topPerformers")
    /\ Len(DataRows(r)) = 20
    /\ \E s \in db.students :
         /\ Qualifies(r, s)
         /\ \A k \in 1..20 : DataRows(r)[k].student_id # s.student_id

\* The tier named for an average of sum / n grade points (tenths compared
\* exactly), and the rank of a tier.
TierOf(sum, n) ==
  IF 10 * sum >= 38 * n THEN "Outstanding"
  ELSE IF 10 * sum >= 35 * n THEN "Excellent"
  ELSE IF 10 * sum >= 30 * n THEN "Good"
  ELSE "Satisfactory"

TierRank(t) ==
  CASE t = "Outstanding" -> 3 [] t = "Excellent" -> 2 [] t = "Good" -> 1
    [] t = "Satisfactory" -> 0

\* C19.  In every top performers row, performance_rating is the tier of the
\* student's unweighted average grade point (sum of the grade points of the
\* graded enrollments over their number): Outstanding from 3.8, Excellent
\* from 3.5, Good from 3.0, otherwise Satisfactory.
C19_RatingFromUnweighted ==
  \A r \in Reqs :
    Answered(r, "topPerformers") =>
      \A k \in 1..Len(DataRows(r)) :
        LET row == DataRows(r)[k]
            es == WithGrade(EnrollmentsOfStudent(row.student_id))
        IN row.performance_rating = TierOf(SumLetterPoints(es), Cardinality(es))

\* C19, witness: a returned row whose rating is below the tier that its
\* weighted_gpa would name.
C19_Witness ==
  \E r \in Reqs :
    /\ Answered(r, "topPerformers")
    /\ \E k \in 1..Len(DataRows(r)) :
         LET row == DataRows(r)[k]
         IN TierRank(row.performance_rating) < TierRank(TierOf(row.weighted_gpa[1], 100))

\* The value a numeric parameter stands for when defaults apply only to an
\* absent or unparseable value: the parsed number if there is one.
ParsedOr(n, default) == IF n = NaN THEN default ELSE n

\* C20 as stated: student performance binds and echoes the parsed minGPA
\* (0 when absent or unparseable), and top performers binds and echoes the
\* parsed minCourses and minGPA (3 and 3.5 when absent or unparseable); a
\* supplied value that parses to a number, 0 included, is the value used.
C20_DefaultOnlyWhenUnparseable ==
  \A r \in Reqs :
    /\ Answered(r, "studentPerformance") =>
         LET minGPA == ParsedOr(parseFloat(req[r].input.query.minGPA), Num(0))
         IN /\ req[r].values[Len(req[r].values)] = minGPA
            /\ req[r].res.body.filters.minGPA = minGPA
    /\ Answered(r, "topPerformers") =>
         LET minCourses == ParsedOr(parseInt(req[r].input.query.minCourses), Num(3))
             minGPA == ParsedOr(parseFloat(req[r].input.query.minGPA), Dec(35, 1))
         IN /\ req[r].values = <<minCourses, minGPA>>
            /\ req[r].res.body.criteria = [minCourses |-> minCourses, minGPA |-> minGPA]

\* C21.  All students with enrollments answers with exactly one row per
\* student of the students table, whatever the enrollments table holds: the
\* row of a student with k enrollments has total_enrollments = k, and with
\* k = 0 its courses value is null.
C21_OneRowPerStudent ==
  \A r \in Reqs :
    Answered(r, "allWithEnrollments") =>
      LET rows == DataRows(r)
      IN /\ Len(rows) = Cardinality(db.students)
         /\ \A s \in db.students :
              \E k \in 1..Len(rows) :
                /\ rows[k].student_id = s.student_id
                /\ \A j \in 1..Len(rows) : rows[j].student_id = s.student_id => j = k
                /\ rows[k].total_enrollments = Cardinality(EnrollmentsOfStudent(s.student_id))
                /\ EnrollmentsOfStudent(s.student_id) = {} =>
                     rows[k].total_enrollments = 0 /\ rows[k].courses = Null

\* C21, witness: an answer holding the row of a student without enrollments
\* next to the row of a student with two.
C21_Witness ==
  \E r \in Reqs :
    /\ Answered(r, "allWithEnrollments")
    /\ \E j, k \in 1..Len(DataRows(r)) :
         /\ DataRows(r)[j].total_enrollments = 0
         /\ DataRows(r)[j].courses = Null
         /\ DataRows(r)[k].total_enrollments = 2

\* C22.  Popular courses with an integer threshold t answers 200 with
\* exactly one row for each course that has at least one enrollment and at
\* least t of them, carrying that count: with t = 0 these are the courses
\* with an enrollment, and with t above every course's count there is none.
C22_PopularThreshold ==
  \A r \in Reqs :
    (IsDone(r) /\ OpOf(r) = "popularCourses" /\ req[r].rows # Null
       /\ parseInt(req[r].input.params.minEnrollments) # NaN) =>
      LET t == parseInt(req[r].input.params.minEnrollments)[2]
          rows == DataRows(r)
          wanted == {c \in db.courses :
                       /\ Cardinality(EnrollmentsOfCourse(c.course_id)) >= 1
                       /\ Cardinality(EnrollmentsOfCourse(c.course_id)) >= t}
      IN /\ req[r].res.status = 200
         /\ Len(rows) = Cardinality(wanted)
         /\ {rows[k].course_id : k \in 1..Len(rows)} = {c.course_id : c \in wanted}
         /\ \A k \in 1..Len(rows) :
              rows[k].enrollment_count =
                Cardinality(EnrollmentsOfCourse(rows[k].course_id))
         /\ (\A c \in db.courses : Cardinality(EnrollmentsOfCourse(c.course_id)) < t)
              => rows = <<>>

\* C22, witness: with threshold 0 a course with an enrollment is returned
\* while a course without any is not.
C22_Witness ==
  \E r \in Reqs :
    /\ Answered(r, "popularCourses")
    /\ parseInt(req[r].input.params.minEnrollments) = Num(0)
    /\ Len(DataRows(r)) = 1
    /\ \E c \in db.courses : EnrollmentsOfCourse(c.course_id) = {}

\* The enrollments of student `id` whose course is in the list of request r
\* (the pieces of its courseIds parameter).
MatchingEnrollments(r, id) ==
  {e \in EnrollmentsOfStudent(id) :
     InList(e.course_id, split(req[r].input.query.courseIds))}

\* C23.  Students in courses binds the list of course ids twice, and answers
\* with exactly one row for each student that has an enrollment whose course
\* is in the list; the row's matching_course_count is the number of those
\* enrollments, so it is at least 1.
C23_StudentsInCourses ==
  \A r \in Reqs :
    Answered(r, "studentsInCourses") =>
      LET rows == DataRows(r)
          list == split(req[r].input.query.courseIds)
          wanted == {s \in db.students : MatchingEnrollments(r, s.student_id) # {}}
      IN /\ req[r].values = <<list, list>>
         /\ Len(rows) = Cardinality(wanted)
         /\ {rows[k].student_id : k \in 1..Len(rows)} = {s.student_id : s \in wanted}
         /\ \A k \in 1..Len(rows) :
              /\ rows[k].matching_course_count =
                   Cardinality(MatchingEnrollments(r, rows[k].student_id))
              /\ rows[k].matching_course_count >= 1

\* C23, witness: for a list of two courses, the student enrolled in both is
\* returned once, with count 2, and the student without enrollments is not.
C23_Witness ==
  \E r \in Reqs :
    /\ Answered(r, "studentsInCourses")
    /\ Len(req[r].values[1][2]) = 2
    /\ Len(DataRows(r)) = 1
    /\ DataRows(r)[1].matching_course_count = 2
    /\ \E s \in db.students : EnrollmentsOfStudent(s.student_id) = {}

CoursesOfDepartment(dep) == {c \in db.courses : c.department = dep}

\* C24 as stated: each department analytics row gives, over the department's
\* courses counted once each, the sum of their credits as
\* total_credits_offered and their mean credits as avg_credits_per_course,
\* however many enrollments a course has; and the rows are those of the
\* departments that have an enrollment.
C24_CreditsPerCourse ==
  \A r \in Reqs :
    Answered(r, "departments") =>
      LET rows == DataRows(r)
      IN /\ {rows[k].department : k \in 1..Len(rows)} =
              {c.department : c \in {x \in db.courses : EnrollmentsOfCourse(x.course_id) # {}}}
         /\ \A k \in 1..Len(rows) :
              LET cs == CoursesOfDepartment(rows[k].department)
                  credits == SumFn([c \in cs |-> c.credits])
              IN /\ rows[k].total_credits_offered = credits
                 /\ rows[k].avg_credits_per_course = Avg4(credits, Cardinality(cs))

\* C25.  A /health request issues the one statement SELECT 1; it is answered
\* 200 with status 'healthy' exactly when that query answers, and 503 with
\* status 'unhealthy' exactly when it is rejected.  Whether the query of a
\* running request answers or is rejected goes by whether the store is
\* reachable at that moment, whatever earlier requests were answered.
C25_Health ==
  /\ [](\A r \in Reqs :
          (IsDone(r) /\ OpOf(r) = "health") =>
            /\ req[r].text = <<Lit("SELECT"), Lit("1")>>
            /\ req[r].values = <<>>
            /\ req[r].nQueries = 1
            /\ req[r].res.status \in {200, 503}
            /\ req[r].res.status = 200 <=> req[r].rows # Null
            /\ req[r].res.status = 200 <=> req[r].res.body.status = "healthy"
            /\ req[r].res.status = 503 <=> req[r].res.body.status = "unhealthy")
  /\ [][\A r \in Reqs :
          (req[r].pc = "running" /\ req[r].input.op = "health" /\ req'[r].pc = "done") =>
            (req'[r].res.status = 200 <=> storeUp)]_vars

\* C25, witness: of two /health requests, the first was answered 503 and the
\* second 200.
C25_Witness ==
  /\ IsDone(1) /\ OpOf(1) = "health" /\ req[1].res.status = 503
  /\ IsDone(2) /\ OpOf(2) = "health" /\ req[2].res.status = 200

\* C26.  Every request receives exactly one response: a request has a
\* response exactly when its handler has ended; once it has one, nothing about
\* it changes again (no second response); the step in which its store call
\* settles sends the response; and, store calls settling, every request that
\* arrived is responded to in the end.
C26_ExactlyOneResponse ==
  /\ [](\A r \in Reqs : req[r].res # NoResponse <=> IsDone(r))
  /\ [][\A r \in Reqs : req[r].res # NoResponse => req'[r] = req[r]]_vars
  /\ [][\A r \in Reqs :
          (req[r].pc = "running" /\ req'[r].pc # "running") =>
            (req'[r].pc = "done" /\ req'[r].res # NoResponse)]_vars
  /\ \A r \in 1..2 : (req[r].pc # "idle") ~> (req[r].res # NoResponse)

\* C26, witness: one request was answered by an early return without a store
\* call and the other by the catch block after its store call was rejected.
C26_Witness ==
  /\ IsDone(1) /\ req[1].res.status = 400 /\ req[1].nQueries = 0
  /\ IsDone(2) /\ req[2].res.status = 500 /\ req[2].nQueries = 1

\* C27.  Whenever the server listens or a handler has run, the `pool`
\* variable is assigned: it is assigned from the first call of
\* initializeDatabase on and stays so, the server starts listening only in
\* the step that settles that call's SELECT 1, and every query a handler
\* issued went to a pool.
C27_PoolAssigned ==
  /\ [](initPc # "start" => pool # 0)
  /\ []((listening \/ \E r \in Reqs : req[r].pc # "idle") => pool # 0)
  /\ [](\A r \in Reqs : req[r].nQueries > 0 => req[r].pool \in 1..Len(pools))
  /\ [][pool # 0 => pool' # 0]_vars
  /\ [][(~listening /\ listening') => (initPc = "probing" /\ pool # 0)]_vars

\* C27, witness: the first connection attempt failed, none has succeeded yet,
\* and a request has been handled with its query issued on the pool.
C27_Witness ==
  /\ nFailed >= 1
  /\ initPc # "ready"
  /\ \E r \in Reqs : IsDone(r) /\ req[r].nQueries = 1 /\ req[r].pool # 0

\* C28.  Every connection attempt creates a pool and none is ended before
\* SIGTERM: after k failed attempts (k up to MaxFailures) there are k pools,
\* and one more while an attempt is pending or has succeeded.  Whatever the
\* number of attempts before it, the step that makes an attempt puts a fresh
\* pool behind the ones there are, which it leaves as they are.  The `pool`
\* variable is the most recently created pool, a handler issues its query on
\* that one, and a SIGTERM ends the one pool the variable names when it
\* arrives, no other.
C28_PoolPerAttempt ==
  /\ [](nFailed <= MaxFailures =>
         Len(pools) = nFailed + (IF initPc \in {"probing", "ready"} THEN 1 ELSE 0))
  /\ [][(initPc # "probing" /\ initPc' = "probing") =>
          /\ pools'[Len(pools')] = [NewPool EXCEPT !.busy = 1]
          /\ \E d \in 0..Len(pools) :
               /\ SubSeq(pools', 1, Len(pools') - 1) = Without(pools, d)
               /\ d # 0 => Len(pools) = MaxFailures + 1]_vars
  /\ [](initPc # "start" => pool = Len(pools))
  /\ [](termPc = "none" => \A p \in 1..Len(pools) : ~pools[p].closed)
  /\ [][\A r \in Reqs :
          (req[r].nQueries = 0 /\ req'[r].nQueries = 1) => req'[r].pool = Len(pools)]_vars
  /\ [][\A p \in 1..Len(pools) :
          (initPc' = initPc /\ ~pools[p].closed /\ pools'[p].closed)
            => (p = pool /\ p = Len(pools))]_vars

\* C28, witness: two attempts failed and the third succeeded, so three pools
\* exist; a request was served on the first of them during the retries; and
\* SIGTERM has ended the third pool only.
C28_Witness ==
  /\ nFailed = 2 /\ initPc = "ready" /\ Len(pools) = 3
  /\ \E r \in Reqs : req[r].nQueries = 1 /\ req[r].pool = 1
  /\ ~pools[1].closed /\ ~pools[2].closed /\ pools[3].closed

\* C29 without its exit code.  With a pool, SIGTERM first calls pool.end()
\* and the process ends only in a step in which that call has settled.  The
\* server keeps listening until then, and once the process has ended no
\* request changes any more: a request whose query was in flight stays
\* without a response.  After SIGTERM the process ends, in the end.
SigtermOrder ==
  /\ [][((termPc = "none" /\ termPc' # "none" /\ pool # 0)
           \/ (initPc' = initPc
                 /\ \E p \in 1..Len(pools) : ~pools[p].closed /\ pools'[p].closed))
          => (termPc' = "ending" /\ pools'[pool].closed /\ ~exited')]_vars
  /\ [][(~exited /\ exited' /\ pool # 0) => termPc = "ending"]_vars
  /\ [][listening => listening']_vars
  /\ [][exited => (exited' /\ req' = req)]_vars
  /\ (termPc # "none") ~> exited

\* C29 as stated: the process that SIGTERM ends exits with code 0, after
\* pool.end() when there is a pool, the server still listening and requests
\* in flight left without a response.
C29_SigtermExit ==
  /\ SigtermOrder
  /\ [](exited => exitCode = Some(0))

\* The process has exited while a request's query was in flight; the
\* request has no response.
ExitedInFlight ==
  /\ exited
  /\ \E r \in Reqs : req[r].pc = "running" /\ req[r].res = NoResponse

\* C30.  In every success response with a data field, data is the row list
\* that the store returned to this request's own query (for course details,
\* its first row), that list being an answer to the request's own operation
\* and bound values; and where the response has a count field, count is the
\* number of rows in data.
C30_OwnRows ==
  \A r \in Reqs :
    (IsDone(r) /\ req[r].res.status = 200 /\ "data" \in DOMAIN req[r].res.body) =>
      /\ req[r].rows # Null
      /\ req[r].rows[1] \in StoreRows(db, OpOf(r), req[r].values)
      /\ req[r].res.body.data =
           IF OpOf(r) = "courseDetails" THEN req[r].rows[1][1] ELSE req[r].rows[1]
      /\ "count" \in DOMAIN req[r].res.body =>
           req[r].res.body.count = Len(req[r].res.body.data)

\* C30, witness: two requests to the same operation, side by side, were
\* answered with different counts, each with its own rows.
C30_Witness ==
  /\ IsDone(1) /\ IsDone(2) /\ OpOf(1) = OpOf(2)
  /\ req[1].res.status = 200 /\ req[2].res.status = 200
  /\ "count" \in DOMAIN req[1].res.body /\ "count" \in DOMAIN req[2].res.body
  /\ req[1].res.body.count = 0 /\ req[2].res.body.count > 0

=============================================================================
